---- MODULE Spec2Model ----
(***************************************************************************)
(* Model of the ingestion and reconciliation pipeline of bggweb            *)
(* (games/tasks.py, games/views.py, games/models.py).                      *)
(*                                                                         *)
(* The persistent store is the six tables Game, PlayerCountRecommendation, *)
(* Collection, OwnedGame, Category and Family.  The reconciler operations  *)
(* (_sync_catalog, _sync_refresh_chunk, _purge_untracked_collections,      *)
(* _prune_games_after_refresh) are operators from a store to a store; the  *)
(* job runners (run_refresh, run_fetch_top_n, run_fetch_collection) are    *)
(* step machines over them.                                                *)
(***************************************************************************)
EXTENDS Integers, Sequences, FiniteSets, TLC

(***************************************************************************)
(* Bounds of the model.                                                    *)
(***************************************************************************)
MaxId == 2
MaxCount == 2
MaxOps == 2

(* bgg_id values: the id strings "1" .. "MaxId" *)
Ids == 1..MaxId
(* player counts a poll can name *)
Counts == 1..MaxCount
(* usernames whose collections are fetched *)
Users == {"alice", "bob"}

(***************************************************************************)
(* Optional values: Python None is the empty tuple, a value v is <<v>>.    *)
(***************************************************************************)
None == <<>>
Some(v) == <<v>>

(***************************************************************************)
(* The models (games/models.py).                                           *)
(***************************************************************************)
(* The store: games is keyed by bgg_id (unique); player_counts[g][c] is    *)
(* the sequence of PlayerCountRecommendation rows of game g with count c   *)
(* (a sequence so that a duplicate row is a state the model can be in);    *)
(* collections is the set of Collection usernames; owned[u][g] is the      *)
(* number of OwnedGame rows linking u's Collection to game g.              *)
EmptyStore ==
    [ games |-> <<>>,
      player_counts |-> [g \in Ids |-> [c \in Counts |-> <<>>]],
      collections |-> {},
      owned |-> [u \in Users |-> [g \in Ids |-> 0]],
      categories |-> {},
      families |-> {} ]

(* the PlayerCountRecommendation row built from one poll entry *)
OrZero(v) == IF v = None THEN 0 ELSE v[1]

(***************************************************************************)
(* Conversions (tasks.py 22-42).                                           *)
(***************************************************************************)
(* _to_float / _to_int: None stays None, a number is kept. *)
_to_float(value) == IF value = None THEN None ELSE Some(value[1])
_to_int(value) == IF value = None THEN None ELSE Some(value[1])

(* strings that are inspected character by character are tuples of chars *)
Lower(ch) ==
    CASE ch = "E" -> "e" [] ch = "X" -> "x" [] ch = "P" -> "p"
      [] ch = "B" -> "b" [] ch = "G" -> "g" [] OTHER -> ch
LowerStr(s) == [i \in 1..Len(s) |-> Lower(s[i])]
StartsWith(s, p) == Len(s) >= Len(p) /\ SubSeq(s, 1, Len(p)) = p
BaseGameStr == <<"B", "a", "s", "e", " ", "G", "a", "m", "e">>
ExpansionStr == <<"E", "x", "p", "a", "n", "s", "i", "o", "n">>

(* _normalize_type: str(raw or "Base Game").lower().startswith("exp") *)
_normalize_type(raw) ==
    LET text == LowerStr(IF raw = <<>> THEN BaseGameStr ELSE raw)
    IN  IF StartsWith(text, <<"e", "x", "p">>) THEN "Expansion" ELSE "Base Game"

(* dict.get(key) on a map that may lack the id: the detail of gid or {} *)
HasKey(m, gid) == gid \in DOMAIN m
NoDetail ==
    [ Year |-> None, Weight |-> None, WeightVotes |-> None, BGGRank |-> None,
      Categories |-> {}, Families |-> {} ]
DetailOf(details_map, gid) ==
    IF HasKey(details_map, gid) THEN details_map[gid] ELSE NoDetail

(* x or y on strings *)
StrOr(x, y) == IF x = "" THEN y ELSE x

(* names kept by "if name" *)
NonEmptyNames(names) == {nm \in names : nm # ""}

(***************************************************************************)
(* Storage helpers.                                                        *)
(***************************************************************************)
Restrict(f, S) == [x \in (DOMAIN f) \cap S |-> f[x]]

(* filter where the code says exclude: the games of `keep` are deleted *)
DeleteGamesInside(db, keep) ==
    [ db EXCEPT
        !.games = Restrict(db.games, (DOMAIN db.games) \ keep),
        !.player_counts =
            [g \in Ids |-> IF g \notin keep THEN db.player_counts[g]
                           ELSE [c \in Counts |-> <<>>]],
        !.owned =
            [u \in Users |-> [g \in Ids |-> IF g \notin keep THEN db.owned[u][g] ELSE 0]] ]

(* Game.objects.exclude(bgg_id__in=keep).delete(): the rows of the deleted *)
(* games in PlayerCountRecommendation and OwnedGame go with them           *)
(* (on_delete=CASCADE).                                                    *)
DeleteGamesOutside(db, keep) ==
    [ db EXCEPT
        !.games = Restrict(db.games, keep),
        !.player_counts =
            [g \in Ids |-> IF g \in keep THEN db.player_counts[g]
                           ELSE [c \in Counts |-> <<>>]],
        !.owned =
            [u \in Users |-> [g \in Ids |-> IF g \in keep THEN db.owned[u][g] ELSE 0]] ]

(* usernames of the Collections that hold an OwnedGame row for gid *)
LinkOwners(db, gid) == {u \in db.collections : db.owned[u][gid] > 0}

(***************************************************************************)
(* _sync_catalog (tasks.py 57-360).                                        *)
(***************************************************************************)
(* lines 72-77: usernames that are empty are dropped from the map *)
NormalizeCollections(collection_owned_map) ==
    Restrict(collection_owned_map, {u \in DOMAIN collection_owned_map : u # ""})

(* lines 79-82: owners_input_by_gid *)
OwnersInput(cmap, gid) == {u \in DOMAIN cmap : gid \in cmap[u]}

(* lines 140-183: the row written for gid, updating `old` or creating *)
CatalogRow(db, gid, info, detail, owners_for_gid, now) ==
    IF gid \in DOMAIN db.games
    THEN [ db.games[gid] EXCEPT
             !.title = StrOr(info.Title, @),
             !.type = _normalize_type(info.Type),
             !.year = detail.Year,
             !.avg_rating = _to_float(info.AvgRating),
             !.num_voters = _to_int(info.NumVoters),
             !.weight = _to_float(detail.Weight),
             !.weight_votes = _to_int(detail.WeightVotes),
             !.bgg_rank = _to_int(detail.BGGRank),
             !.updated_at = now ]
    ELSE [ title |-> StrOr(info.Title, ""),
           type |-> _normalize_type(info.Type),
           year |-> detail.Year,
           avg_rating |-> _to_float(info.AvgRating),
           num_voters |-> _to_int(info.NumVoters),
           weight |-> _to_float(detail.Weight),
           weight_votes |-> _to_int(detail.WeightVotes),
           bgg_rank |-> _to_int(detail.BGGRank),
           owned |-> owners_for_gid # {},
           owned_by |-> owners_for_gid,
           categories |-> {},
           families |-> {},
           created_at |-> now,
           updated_at |-> now ]

(* lines 137-204: bulk_create / bulk_update of every id of games_map *)
CatalogUpsert(db, games_map, details_map, cmap, now) ==
    [ db EXCEPT !.games =
        [ gid \in (DOMAIN db.games) \cup (DOMAIN games_map) |->
            IF gid \in DOMAIN games_map
            THEN CatalogRow(db, gid, games_map[gid], DetailOf(details_map, gid),
                            OwnersInput(cmap, gid), now)
            ELSE db.games[gid] ] ]

(* lines 207-229 (and 520-546): _collect_vocab creates the missing names,  *)
(* then categories.set / families.set for every id of `ids`                *)
SetRelations(db, ids, details_map) ==
    LET cats(gid) == NonEmptyNames(DetailOf(details_map, gid).Categories)
        fams(gid) == NonEmptyNames(DetailOf(details_map, gid).Families)
    IN  [ db EXCEPT
            !.categories = @ \cup UNION {cats(gid) : gid \in ids},
            !.families = @ \cup UNION {fams(gid) : gid \in ids},
            !.games =
                [ gid \in DOMAIN db.games |->
                    IF gid \in ids
                    THEN [ db.games[gid] EXCEPT !.categories = cats(gid),
                                                 !.families = fams(gid) ]
                    ELSE db.games[gid] ] ]

(* int(count) on a poll key: the key '' (a poll entry without numplayers)  *)
(* does not parse                                                          *)
CanInt(key) == key # <<>>
IntOf(key) == key[1]

(* lines 252-283: the row built from one poll entry *)
RecRow(data) ==
    [ best_pct |-> OrZero(_to_float(data.BestPct)),
      best_votes |-> OrZero(_to_int(data.BestVotes)),
      rec_pct |-> OrZero(_to_float(data.RecPct)),
      rec_votes |-> OrZero(_to_int(data.RecVotes)),
      notrec_pct |-> OrZero(_to_float(data.NotPct)),
      notrec_votes |-> OrZero(_to_int(data.NotVotes)),
      vote_count |-> OrZero(_to_int(data.TotalVotes)) ]

(* player_counts.get(gid, {}) or {} *)
CountsOf(player_counts, gid) ==
    IF HasKey(player_counts, gid) THEN player_counts[gid] ELSE <<>>
SeenCounts(counts) == {IntOf(k) : k \in {k \in DOMAIN counts : CanInt(k)}}

(* an append instead of a replace: the row of a count not seen is kept *)
ReplaceByCountKeepsUnseen(rows, counts) ==
    [ c \in Counts |->
        IF c \in SeenCounts(counts)
        THEN IF Len(rows[c]) > 0
             THEN [rows[c] EXCEPT ![Len(rows[c])] = RecRow(counts[Some(c)])]
             ELSE <<RecRow(counts[Some(c)])>>
        ELSE rows[c] ]

(* lines 244-306 (and 561-618): the rows of one game after the incoming    *)
(* counts are applied: the row of a seen count is updated in place or      *)
(* created, the row of a count not seen is deleted                         *)
ReplaceByCount(rows, counts) ==
    [ c \in Counts |->
        IF c \in SeenCounts(counts)
        THEN IF Len(rows[c]) > 0
             THEN [rows[c] EXCEPT ![Len(rows[c])] = RecRow(counts[Some(c)])]
             ELSE <<RecRow(counts[Some(c)])>>
        ELSE IF Len(rows[c]) > 0
             THEN SubSeq(rows[c], 1, Len(rows[c]) - 1)
             ELSE <<>> ]

(* line 251: int(count) raises ValueError on a key that does not parse *)
CatalogCountsRaise(games_map, player_counts) ==
    \E gid \in DOMAIN games_map :
        \E k \in DOMAIN CountsOf(player_counts, gid) : ~CanInt(k)

(* lines 233-306 *)
CatalogRecs(db, games_map, player_counts) ==
    [ db EXCEPT !.player_counts =
        [ gid \in Ids |->
            IF gid \in DOMAIN games_map
            THEN ReplaceByCount(db.player_counts[gid], CountsOf(player_counts, gid))
            ELSE db.player_counts[gid] ] ]

(* the check "gid not in existing_owned_map" left out: a row is created    *)
(* for every target id                                                     *)
CatalogLinksNoExistingCheck(db, cmap) ==
    [ db EXCEPT
        !.collections = @ \cup DOMAIN cmap,
        !.owned =
            [ u \in Users |->
                IF u \in DOMAIN cmap
                THEN [ gid \in Ids |->
                         IF gid \in cmap[u]
                         THEN IF gid \in DOMAIN db.games
                              THEN db.owned[u][gid] + 1
                              ELSE db.owned[u][gid]
                         ELSE IF db.owned[u][gid] > 0
                              THEN db.owned[u][gid] - 1
                              ELSE 0 ]
                ELSE db.owned[u] ] ]

(* the rows of ids outside target_ids are left in place *)
CatalogLinksKeepsStale(db, cmap) ==
    [ db EXCEPT
        !.collections = @ \cup DOMAIN cmap,
        !.owned =
            [ u \in Users |->
                IF u \in DOMAIN cmap
                THEN [ gid \in Ids |->
                         IF gid \in cmap[u] /\ db.owned[u][gid] = 0
                            /\ gid \in DOMAIN db.games
                         THEN 1
                         ELSE db.owned[u][gid] ]
                ELSE db.owned[u] ] ]

(* lines 310-330: for every username Collection.get_or_create, then the    *)
(* OwnedGame rows of that Collection are reconciled to target_ids          *)
CatalogLinks(db, cmap) ==
    [ db EXCEPT
        !.collections = @ \cup DOMAIN cmap,
        !.owned =
            [ u \in Users |->
                IF u \in DOMAIN cmap
                THEN [ gid \in Ids |->
                         IF gid \in cmap[u]
                         THEN IF db.owned[u][gid] = 0 /\ gid \in DOMAIN db.games
                              THEN 1
                              ELSE db.owned[u][gid]
                         ELSE IF db.owned[u][gid] > 0
                              THEN db.owned[u][gid] - 1
                              ELSE 0 ]
                ELSE db.owned[u] ] ]

(* lines 332-333: the ids whose owned / owned_by are recomputed *)
RelevantIds(games_map, cmap) ==
    (DOMAIN games_map) \cup UNION {cmap[u] : u \in DOMAIN cmap}

(* "owned" left out of the updated fields: only owned_by is rewritten *)
RecomputeOwnersWithoutFlag(db, ids, now) ==
    [ db EXCEPT !.games =
        [ gid \in DOMAIN db.games |->
            LET game == db.games[gid]
                owners == LinkOwners(db, gid)
            IN  IF gid \in ids /\ (game.owned # (owners # {}) \/ game.owned_by # owners)
                THEN [game EXCEPT !.owned_by = owners, !.updated_at = now]
                ELSE game ] ]

(* lines 334-357: owned / owned_by recomputed from the OwnedGame rows *)
RecomputeOwners(db, ids, now) ==
    [ db EXCEPT !.games =
        [ gid \in DOMAIN db.games |->
            LET game == db.games[gid]
                owners == LinkOwners(db, gid)
            IN  IF gid \in ids /\ (game.owned # (owners # {}) \/ game.owned_by # owners)
                THEN [game EXCEPT !.owned = (owners # {}),
                                  !.owned_by = owners,
                                  !.updated_at = now]
                ELSE game ] ]

(* the whole call: the store it leaves and whether it raised *)
_sync_catalog(db, games_map, details_map, player_counts, collection_owned_map, prune, now) ==
    LET cmap == NormalizeCollections(collection_owned_map)
        db1 == IF prune THEN DeleteGamesOutside(db, DOMAIN games_map) ELSE db
        db2 == CatalogUpsert(db1, games_map, details_map, cmap, now)
        db3 == SetRelations(db2, DOMAIN games_map, details_map)
        db4 == CatalogRecs(db3, games_map, player_counts)
        db5 == CatalogLinks(db4, cmap)
        db6 == RecomputeOwners(db5, RelevantIds(games_map, cmap), now)
    IN  IF CatalogCountsRaise(games_map, player_counts)
        THEN [db |-> db3, raised |-> TRUE]
        ELSE [db |-> db6, raised |-> FALSE]

(***************************************************************************)
(* _purge_untracked_collections (tasks.py 365-398).                        *)
(***************************************************************************)
(* (u or '').strip() on the usernames the model uses: a padded spelling    *)
(* of alice, and a blank                                                   *)
Strip(u) ==
    CASE u = " alice " -> "alice"
      [] u = " " -> ""
      [] OTHER -> u

(* lines 366, 416, 767: the stripped non-empty usernames *)
NormalizedUsernames(usernames) == {Strip(u) : u \in usernames} \ {""}

(* lines 374-380: the OwnedGame rows of the purged Collections and the     *)
(* Collections themselves are deleted                                      *)
PurgeDelete(db, purge_qs) ==
    [ db EXCEPT
        !.owned = [u \in Users |->
                     IF u \in purge_qs THEN [gid \in Ids |-> 0] ELSE db.owned[u]],
        !.collections = @ \ purge_qs ]

(* the recomputation left out *)
PurgeWithoutRecompute(db, affected_game_ids, now) == db

(* lines 383-398: owned / owned_by of the games that lost a row are        *)
(* recomputed from the rows that remain                                    *)
PurgeRecompute(db, affected_game_ids, now) ==
    [ db EXCEPT !.games =
        [ gid \in DOMAIN db.games |->
            LET game == db.games[gid]
                owners == {u \in LinkOwners(db, gid) : u # ""}
            IN  IF gid \in affected_game_ids
                   /\ (game.owned # (owners # {}) \/ game.owned_by # owners)
                THEN [game EXCEPT !.owned = (owners # {}),
                                  !.owned_by = owners,
                                  !.updated_at = now]
                ELSE game ] ]

_purge_untracked_collections(db, active_usernames, now) ==
    LET normalized == NormalizedUsernames(active_usernames)
        purge_qs == IF normalized # {}
                    THEN {u \in db.collections : u \notin normalized}
                    ELSE db.collections
        affected_game_ids ==
            {gid \in DOMAIN db.games : \E u \in purge_qs : db.owned[u][gid] > 0}
    IN  IF purge_qs = {} THEN db
        ELSE IF affected_game_ids = {} THEN PurgeDelete(db, purge_qs)
        ELSE PurgeRecompute(PurgeDelete(db, purge_qs), affected_game_ids, now)

(***************************************************************************)
(* _build_owners_lookup, _ensure_collections (tasks.py 402-420).           *)
(***************************************************************************)
_build_owners_lookup(collection_owned_map) ==
    LET cmap == NormalizeCollections(collection_owned_map)
    IN  [ gid \in UNION {cmap[u] : u \in DOMAIN cmap} |-> OwnersInput(cmap, gid) ]

(* owners_lookup.get(gid, set()) *)
LookupOwners(owners_lookup, gid) ==
    IF HasKey(owners_lookup, gid) THEN owners_lookup[gid] ELSE {}

(* get_or_create for every stripped non-empty username; the cache is the   *)
(* set of usernames whose Collection it holds                              *)
_ensure_collections(db, usernames) ==
    [ db EXCEPT !.collections = @ \cup NormalizedUsernames(usernames) ]

(***************************************************************************)
(* _sync_refresh_chunk (tasks.py 423-650).                                 *)
(***************************************************************************)
(* games_map.get(gid) or {} : every field of a missing entry reads None *)
NoInfo ==
    [ Title |-> "", Type |-> <<>>, AvgRating |-> None, NumVoters |-> None,
      BGGRank |-> None ]
InfoOf(games_map, gid) == IF HasKey(games_map, gid) THEN games_map[gid] ELSE NoInfo

(* lines 467-469: the detail's rank, else the rank of the ranked dump *)
ChunkRank(info, detail) ==
    IF _to_int(detail.BGGRank) # None
    THEN _to_int(detail.BGGRank)
    ELSE _to_int(info.BGGRank)

(* lines 450-507: the row written for gid *)
ChunkRow(db, gid, info, has_detail, detail, owners_for_gid, now) ==
    IF gid \in DOMAIN db.games
    THEN LET game == db.games[gid]
             bgg_rank == ChunkRank(info, detail)
         IN  [ game EXCEPT
                 !.title = IF info.Title # "" THEN info.Title ELSE @,
                 !.type = _normalize_type(info.Type),
                 !.avg_rating = _to_float(info.AvgRating),
                 !.num_voters = _to_int(info.NumVoters),
                 !.year = IF has_detail THEN detail.Year ELSE @,
                 !.weight = IF has_detail THEN _to_float(detail.Weight) ELSE @,
                 !.weight_votes = IF has_detail THEN _to_int(detail.WeightVotes) ELSE @,
                 !.bgg_rank = IF has_detail THEN bgg_rank
                              ELSE IF bgg_rank # None THEN bgg_rank ELSE @,
                 !.owned = (owners_for_gid # {}),
                 !.owned_by = owners_for_gid,
                 !.updated_at = now ]
    ELSE [ title |-> StrOr(info.Title, ""),
           type |-> _normalize_type(info.Type),
           year |-> detail.Year,
           avg_rating |-> _to_float(info.AvgRating),
           num_voters |-> _to_int(info.NumVoters),
           weight |-> _to_float(detail.Weight),
           weight_votes |-> _to_int(detail.WeightVotes),
           bgg_rank |-> ChunkRank(info, detail),
           owned |-> owners_for_gid # {},
           owned_by |-> owners_for_gid,
           categories |-> {},
           families |-> {},
           created_at |-> now,
           updated_at |-> now ]

(* lines 446-518 *)
ChunkUpsert(db, normalized_ids, games_map, details_map, owners_lookup, now) ==
    [ db EXCEPT !.games =
        [ gid \in (DOMAIN db.games) \cup normalized_ids |->
            IF gid \in normalized_ids
            THEN ChunkRow(db, gid, InfoOf(games_map, gid), HasKey(details_map, gid),
                          DetailOf(details_map, gid),
                          LookupOwners(owners_lookup, gid), now)
            ELSE db.games[gid] ] ]

(* lines 548-618: only the ids that have a detail; a key that does not     *)
(* parse is skipped                                                        *)
ChunkRecs(db, detail_ids, player_counts_map) ==
    [ db EXCEPT !.player_counts =
        [ gid \in Ids |->
            IF gid \in detail_ids
            THEN ReplaceByCount(db.player_counts[gid], CountsOf(player_counts_map, gid))
            ELSE db.player_counts[gid] ] ]

(* lines 620-650: the OwnedGame rows of every chunk id are reconciled to   *)
(* the usernames of owners_lookup; a username missing from the cache gets  *)
(* its Collection by get_or_create                                         *)
ChunkLinks(db, normalized_ids, owners_lookup, collection_cache) ==
    LET targets(gid) == LookupOwners(owners_lookup, gid)
        existing(gid) == LinkOwners(db, gid)
    IN  [ db EXCEPT
            !.collections =
                @ \cup (UNION {targets(gid) : gid \in normalized_ids} \ collection_cache),
            !.owned =
                [ u \in Users |->
                    [ gid \in Ids |->
                        IF gid \notin normalized_ids THEN db.owned[u][gid]
                        ELSE IF u \in targets(gid)
                             THEN IF u \notin existing(gid) THEN db.owned[u][gid] + 1
                                  ELSE db.owned[u][gid]
                             ELSE IF u \in existing(gid) THEN db.owned[u][gid] - 1
                                  ELSE db.owned[u][gid] ] ] ]

_sync_refresh_chunk(db, chunk_ids, games_map, details_map, player_counts_map, owners_lookup, collection_cache, now) ==
    LET normalized_ids ==
            {gid \in chunk_ids : HasKey(games_map, gid) \/ HasKey(details_map, gid)}
        detail_ids == {gid \in normalized_ids : HasKey(details_map, gid)}
        db1 == ChunkUpsert(db, normalized_ids, games_map, details_map, owners_lookup, now)
        db2 == SetRelations(db1, detail_ids, details_map)
        db3 == ChunkRecs(db2, detail_ids, player_counts_map)
        db4 == ChunkLinks(db3, normalized_ids, owners_lookup, collection_cache)
    IN  IF chunk_ids = {} \/ normalized_ids = {} THEN db ELSE db4

(***************************************************************************)
(* _prune_games_after_refresh (tasks.py 653-658).                          *)
(***************************************************************************)
_prune_games_after_refresh(db, desired_ids) ==
    IF desired_ids # {}
    THEN DeleteGamesOutside(db, desired_ids)
    ELSE DeleteGamesOutside(db, {})

(***************************************************************************)
(* What the remote service answers (services/bgg_client.py).  The remote   *)
(* catalog exists in a few versions; a response carries the entries of one *)
(* version for the ids it covers.                                          *)
(***************************************************************************)
Versions == {"v1", "v2", "v3"}

(* fetch_top_games_ranks, lines 155-165: one row of the ranked dump *)
RankedEntry(gid, v) ==
    [ Title |-> IF v = "v1" THEN "Catan" ELSE "Catan (2nd ed.)",
      Type |-> IF gid % 2 = 0 THEN ExpansionStr ELSE BaseGameStr,
      AvgRating |-> IF v = "v1" THEN Some(71) ELSE Some(73),
      NumVoters |-> Some(9000),
      BGGRank |-> Some(gid) ]

(* fetch_owned_collection, lines 288-316: one item of a collection; the    *)
(* name and the statistics may be missing, there is no rank                *)
OwnedEntry(gid, v) ==
    [ Title |-> IF v = "v1" THEN "Catan" ELSE "",
      Type |-> IF gid % 2 = 0 THEN ExpansionStr ELSE BaseGameStr,
      AvgRating |-> IF v = "v1" THEN Some(71) ELSE None,
      NumVoters |-> IF v = "v1" THEN Some(9000) ELSE None,
      BGGRank |-> None ]

(* _iter_details_batches, lines 385-454: the detail of one item *)
ThingDetail(gid, v) ==
    IF v = "v1"
    THEN [ Year |-> Some("1995"), Weight |-> Some(232), WeightVotes |-> Some(10),
           BGGRank |-> Some(gid), Categories |-> {"Economic"},
           Families |-> {"Strategy"} ]
    ELSE [ Year |-> None, Weight |-> None, WeightVotes |-> None,
           BGGRank |-> None, Categories |-> {"Nautical"}, Families |-> {} ]

(* lines 473-480: percentages in tenths of a percent, rounded *)
Pct(votes, total) ==
    IF total = 0 THEN 0 ELSE (votes * 2000 + total) \div (2 * total)
PollEntry(best, rec, notrec) ==
    LET total == best + rec + notrec
    IN  [ BestPct |-> Some(Pct(best, total)), BestVotes |-> Some(best),
          RecPct |-> Some(Pct(rec, total)), RecVotes |-> Some(rec),
          NotPct |-> Some(Pct(notrec, total)), NotVotes |-> Some(notrec),
          TotalVotes |-> Some(total) ]

(* lines 455-481: the suggested_numplayers poll of one item, keyed by the  *)
(* numplayers attribute ('' when the attribute is missing)                 *)
ThingPoll(gid, v) ==
    CASE v = "v1" -> [k \in {Some(c) : c \in Counts} |-> PollEntry(10, 5, 5)]
      [] v = "v2" -> [k \in {Some(1)} |-> PollEntry(3, 0, 1)]
      [] OTHER -> [k \in {Some(1), <<>>} |-> PollEntry(0, 0, 0)]

RankedMap(ids, v) == [gid \in ids |-> RankedEntry(gid, v)]
OwnedMap(ids, v) == [gid \in ids |-> OwnedEntry(gid, v)]
DetailsMap(ids, v) == [gid \in ids |-> ThingDetail(gid, v)]
PollsMap(ids, v) == [gid \in ids |-> ThingPoll(gid, v)]

(***************************************************************************)
(* State.                                                                  *)
(***************************************************************************)
VARIABLES
    db,        \* the persistent store
    clock,     \* timezone.now(), counted in reconciler calls
    last,      \* the reconciler call that produced db, with its arguments
    jobs,      \* the FetchJob table
    run,       \* the worker thread of the running job
    requests   \* number of requests sent to the remote service

vars == <<db, clock, last, jobs, run, requests>>
jobvars == <<jobs, run, requests>>

(***************************************************************************)
(* The reconciler called on its own.  A call is recorded by its arguments: *)
(* src, K and v give the games map (the ranked dump or a collection, for   *)
(* the ids K, in version v), D the ids the detail response covers,         *)
(* collection_owned_map and prune as passed, owners the usernames          *)
(* owners_lookup gives every chunk id, ids the id or username set of a     *)
(* prune or purge.                                                         *)
(***************************************************************************)
NoCall ==
    [ op |-> "none", src |-> "ranked", K |-> {}, v |-> "v1", D |-> {},
      collection_owned_map |-> <<>>, prune |-> FALSE, owners |-> {},
      ids |-> {}, raised |-> FALSE, pre |-> EmptyStore ]

GamesMapOf(call) ==
    IF call.src = "ranked" THEN RankedMap(call.K, call.v) ELSE OwnedMap(call.K, call.v)
DetailsMapOf(call) == DetailsMap(call.D, call.v)
PlayerCountsOf(call) == PollsMap(call.D, call.v)
OwnersLookupOf(call) == _build_owners_lookup([u \in call.owners |-> call.K])

(* run_fetch_top_n, line 691: _sync_catalog(combined, details, pcounts, prune=True) *)
TopNCall(K, v, D) ==
    [ NoCall EXCEPT !.op = "_sync_catalog", !.src = "ranked", !.K = K, !.v = v,
                    !.D = D, !.prune = TRUE ]

(* run_fetch_collection, lines 731-732: collection_map = {username: set(ids)} *)
CollectionCall(username, K, v, D) ==
    [ NoCall EXCEPT !.op = "_sync_catalog", !.src = "owned", !.K = K, !.v = v,
                    !.D = D, !.collection_owned_map = [x \in {username} |-> K],
                    !.prune = FALSE ]

(* run_refresh, lines 993-1001: one chunk of the detail stream *)
ChunkCall(src, K, v, D, owners) ==
    [ NoCall EXCEPT !.op = "_sync_refresh_chunk", !.src = src, !.K = K, !.v = v,
                    !.D = D, !.owners = owners ]

SyncCatalogStep(calls) ==
    /\ clock < MaxOps
    /\ \E call \in calls :
        LET res == _sync_catalog(db, GamesMapOf(call), DetailsMapOf(call),
                                 PlayerCountsOf(call), call.collection_owned_map,
                                 call.prune, clock + 1)
        IN  /\ db' = res.db
            /\ last' = [call EXCEPT !.raised = res.raised, !.pre = db]
    /\ clock' = clock + 1
    /\ UNCHANGED jobvars

(* the same call once more, right after it completed *)
CallSyncCatalogAgain ==
    /\ clock < MaxOps
    /\ last.op = "_sync_catalog"
    /\ ~last.raised
    /\ LET res == _sync_catalog(db, GamesMapOf(last), DetailsMapOf(last),
                                PlayerCountsOf(last), last.collection_owned_map,
                                last.prune, clock + 1)
       IN  /\ db' = res.db
           /\ last' = [last EXCEPT !.op = "_sync_catalog again",
                                   !.raised = res.raised, !.pre = db]
    /\ clock' = clock + 1
    /\ UNCHANGED jobvars

SyncRefreshChunkStep(calls) ==
    /\ clock < MaxOps
    /\ \E call \in calls :
        /\ db' = _sync_refresh_chunk(db, call.K, GamesMapOf(call), DetailsMapOf(call),
                                     PlayerCountsOf(call), OwnersLookupOf(call),
                                     {}, clock + 1)
        /\ last' = [call EXCEPT !.pre = db]
    /\ clock' = clock + 1
    /\ UNCHANGED jobvars

(* run_refresh passes the normalized usernames (tasks.py 767-768) *)
CallPurgeUntracked ==
    /\ clock < MaxOps
    /\ \E keep \in SUBSET Users :
        /\ db' = _purge_untracked_collections(db, keep, clock + 1)
        /\ last' = [NoCall EXCEPT !.op = "_purge_untracked_collections",
                                  !.ids = keep, !.pre = db]
    /\ clock' = clock + 1
    /\ UNCHANGED jobvars

CallPruneGames ==
    /\ clock < MaxOps
    /\ \E desired_ids \in SUBSET Ids :
        /\ db' = _prune_games_after_refresh(db, desired_ids)
        /\ last' = [NoCall EXCEPT !.op = "_prune_games_after_refresh",
                                  !.ids = desired_ids, !.pre = db]
    /\ clock' = clock + 1
    /\ UNCHANGED jobvars

Init ==
    /\ db = EmptyStore
    /\ clock = 0
    /\ last = NoCall
    /\ jobs = <<>>
    /\ run = [pc |-> "idle"]
    /\ requests = 0

(***************************************************************************)
(* Spec: the reconciler under the calls that differ in ids and owners (the *)
(* remote answers version v1 with a detail for every id).                  *)
(***************************************************************************)
OwnershipSyncCalls ==
    {TopNCall(K, "v1", K) : K \in (SUBSET Ids) \ {{}}}
        \cup {CollectionCall(u, K, "v1", K) : u \in Users \cup {""}, K \in SUBSET Ids}
OwnershipChunkCalls ==
    {ChunkCall(IF owners = {} THEN "ranked" ELSE "owned", K, "v1", K, owners) :
        K \in SUBSET Ids, owners \in SUBSET Users}

CallSyncCatalog == SyncCatalogStep(OwnershipSyncCalls)
CallSyncRefreshChunk == SyncRefreshChunkStep(OwnershipChunkCalls)

Next ==
    \/ CallSyncCatalog
    \/ CallSyncCatalogAgain
    \/ CallSyncRefreshChunk
    \/ CallPurgeUntracked
    \/ CallPruneGames

Spec == Init /\ [][Next]_vars

(***************************************************************************)
(* DataSpec: the reconciler under the calls that differ in what the remote *)
(* answers: the version, and whether the detail response covers every id.  *)
(***************************************************************************)
DataIdSets == {{1}, Ids}
DataDetailSets(K) == {K, K \ {1}}
DataSyncCalls ==
    {TopNCall(K, v, D) : K \in DataIdSets, v \in Versions, D \in SUBSET Ids}
        \cup {CollectionCall("alice", K, v, D) :
                K \in DataIdSets, v \in Versions, D \in SUBSET Ids}
DataChunkCalls ==
    {ChunkCall(src, K, v, D, owners) :
        src \in {"ranked", "owned"}, K \in DataIdSets, v \in Versions,
        D \in SUBSET Ids, owners \in {{}, {"alice"}}}

DataSyncCatalog ==
    SyncCatalogStep({call \in DataSyncCalls : call.D \in DataDetailSets(call.K)})
DataSyncRefreshChunk ==
    SyncRefreshChunkStep({call \in DataChunkCalls :
                            /\ call.D \in DataDetailSets(call.K)
                            /\ (call.src = "owned") = (call.owners # {})})

DataNext ==
    \/ DataSyncCatalog
    \/ CallSyncCatalogAgain
    \/ DataSyncRefreshChunk
    \/ CallPruneGames

DataSpec == Init /\ [][DataNext]_vars

(***************************************************************************)
(* The jobs (views.py 13-37, tasks.py 660-1063).  A job runs on a worker   *)
(* thread of its own: run is that thread, run.job the FetchJob object it   *)
(* holds in memory, jobs[run.job_id] the row in storage.                   *)
(***************************************************************************)
ConfigError == "A ranks ZIP URL must be provided to fetch ranked games."
RemoteError == "remote request failed"
StorageError == "storage operation failed"
PollKeyError == "invalid literal for int() with base 10: ''"

Phase(status, progress, total) ==
    [status |-> status, progress |-> progress, total |-> total]
NoPhases ==
    [ top_n |-> Phase("none", 0, 0), collection |-> Phase("none", 0, 0),
      details |-> Phase("none", 0, 0), cleanup |-> Phase("none", 0, 0) ]

(* FetchJob.objects.create(kind=..., params=..., status='pending', total=n); *)
(* a collection job keeps the default total of 0                            *)
NewJob(kind, n, zip_stored) ==
    [ kind |-> kind, status |-> "pending", progress |-> 0,
      total |-> IF kind = "collection" THEN 0 ELSE n,
      error |-> "", finished_at |-> None,
      params |-> [zip_url |-> zip_stored, phases |-> NoPhases] ]

(* the items of a str passed as `usernames` (views.py 36): its characters *)
Chars(username) ==
    CASE username = "alice" -> {"a", "l", "i", "c", "e"}
      [] username = "bob" -> {"b", "o"}
      [] OTHER -> {}

(* the `usernames` lists run_refresh is called with *)
UsernameLists == {{}, {" alice "}, {"alice", "bob", " "}}

(* the n a job is asked for; the ranked dump lists every id in rank order, *)
(* fetch_top_games_ranks returns its first n rows (bgg_client.py 130-173), *)
(* and the first row alone for n <= 0, as the test `processed >= n` of     *)
(* line 172 holds after it                                                 *)
RequestedN == {0, 1, MaxId}
TopIds(n) == IF n <= 0 THEN {1} ELSE 1..n

(* batch_size of the detail stream: one id per request, or all at once *)
BatchSizes == {1, 20}

(* what a user's collection holds when it is fetched *)
OwnedIdSets == {{}, {MaxId}, Ids}

(* sorted(...) of a set of ids or of usernames *)
SortedIds(S) ==
    LET RECURSIVE build(_)
        build(T) == IF T = {} THEN <<>>
                    ELSE LET m == CHOOSE x \in T : \A y \in T : x <= y
                         IN  <<m>> \o build(T \ {m})
    IN  build(S)
SortedUsers(S) == SelectSeq(<<"alice", "bob">>, LAMBDA u : u \in S)
Min(a, b) == IF a <= b THEN a ELSE b

IdleRun ==
    [ pc |-> "idle", kind |-> "none", job_id |-> 0, job |-> NewJob("none", 0, None),
      n |-> 0, usernames |-> {}, username |-> "", batch_size |-> 0,
      ranks_zip_url |-> None, normalized_usernames |-> {}, v |-> "v1",
      top_ids |-> {}, combined |-> <<>>, collections_map |-> <<>>, idx |-> 0,
      all_ids |-> <<>>, pos |-> 0, applied |-> 0, chunk_ids |-> {}, D |-> {},
      queue_retries |-> 0,
      last_save |-> FALSE, exc |-> "", escaped |-> FALSE, start_db |-> EmptyStore ]

(* job.save(update_fields=fields) of the object job *)
Saved(job, fields) ==
    [ jobs EXCEPT ![run.job_id] =
        [ f \in DOMAIN job |-> IF f \in fields THEN job[f] ELSE @[f] ] ]

(* save_throttled (tasks.py 812-817): saves when half a second has passed  *)
(* since the last throttled save, which the first call always finds        *)
SavedThrottled(job, fields, due) ==
    IF due THEN Saved(job, fields) ELSE jobs
Due == IF run.last_save THEN BOOLEAN ELSE {TRUE}

(* a thread started by start_background(target, job.id, ...) *)
Started(kind, n) ==
    [ IdleRun EXCEPT !.pc = "start", !.kind = kind, !.job_id = 1, !.n = n,
                     !.start_db = db ]

(* home, views.py 13-37: the job is created pending and its runner started *)
(* on a thread; a refresh gets the username string as `usernames`, and no  *)
(* runner gets a ranks source                                              *)
home ==
    /\ run.pc = "idle"
    /\ \E action \in {"top_n", "collection", "refresh"}, n \in RequestedN,
          username \in Users \cup {""} :
        /\ action = "collection" => n = 1
        /\ action = "top_n" => username = ""
        /\ jobs' = <<NewJob(action, n, None)>>
        /\ run' = [ Started(action, n) EXCEPT
                      !.username = username,
                      !.usernames = Chars(username),
                      !.batch_size = 20 ]
    /\ UNCHANGED <<db, clock, last, requests>>

(* the runners called with a ranks source, as argument or stored in the    *)
(* job's params, or with none; run_refresh with a list of usernames        *)
CallRunner ==
    /\ run.pc = "idle"
    /\ \E kind \in {"top_n", "refresh"}, n \in RequestedN,
          zip \in {"none", "argument", "params"},
          usernames \in UsernameLists, batch_size \in BatchSizes :
        /\ kind = "top_n" => usernames = {} /\ batch_size = 20
        /\ jobs' = <<NewJob(kind, n, IF zip = "params" THEN Some("url") ELSE None)>>
        /\ run' = [ Started(kind, n) EXCEPT
                      !.usernames = usernames,
                      !.batch_size = batch_size,
                      !.ranks_zip_url = IF zip = "argument" THEN Some("url") ELSE None ]
    /\ UNCHANGED <<db, clock, last, requests>>

(***************************************************************************)
(* run_refresh (tasks.py 761-1063).                                        *)
(***************************************************************************)
SetPhase(job, name, phase) == [job EXCEPT !.params.phases[name] = phase]

(* an exception raised inside the try block, lines 807-1057 *)
Raise(message) == [run EXCEPT !.pc = "except", !.exc = message]

(* lines 762-768: the job is loaded, and the Collections of the usernames  *)
(* that are not passed are purged; this runs before the try block, an      *)
(* exception here ends the thread                                          *)
RefreshPurge ==
    /\ run.pc = "start" /\ run.kind = "refresh"
    /\ LET job == [jobs[run.job_id] EXCEPT !.status = "running", !.progress = 0,
                                           !.total = run.n]
           normalized == NormalizedUsernames(run.usernames)
       IN  \/ /\ db' = _purge_untracked_collections(db, normalized, clock + 1)
              /\ clock' = clock + 1
              /\ run' = [run EXCEPT !.pc = "save_running", !.job = job,
                                    !.normalized_usernames = normalized]
           \/ /\ run' = [run EXCEPT !.pc = "crashed", !.job = job,
                                    !.normalized_usernames = normalized,
                                    !.exc = StorageError, !.escaped = TRUE]
              /\ UNCHANGED <<db, clock>>
    /\ UNCHANGED <<last, jobs, requests>>

(* lines 769-801 *)
RefreshSaveRunning ==
    /\ run.pc = "save_running"
    /\ LET phases ==
               [ top_n |-> Phase("running", 0, run.n),
                 collection |->
                     IF run.normalized_usernames # {}
                     THEN Phase("pending", 0, Cardinality(run.normalized_usernames))
                     ELSE Phase("skipped", 0, 0),
                 details |-> Phase("pending", 0, 0),
                 cleanup |-> Phase("pending", 0, 1) ]
           job == [run.job EXCEPT
                     !.params.zip_url =
                         IF run.ranks_zip_url # None THEN run.ranks_zip_url ELSE @,
                     !.params.phases = phases]
       IN  /\ run' = [run EXCEPT !.pc = "validate", !.job = job]
           /\ jobs' = Saved(job, {"status", "progress", "total", "params"})
    /\ UNCHANGED <<db, clock, last, requests>>

(* lines 804-809 *)
RefreshValidate ==
    /\ run.pc = "validate"
    /\ run' = IF run.job.params.zip_url = None
              THEN Raise(ConfigError)
              ELSE [run EXCEPT !.pc = "fetch_top"]
    /\ UNCHANGED <<db, clock, last, jobs, requests>>

(* line 831 with on_top_progress, lines 819-828: the ranked dump is        *)
(* downloaded; the callback runs once, after the last row                  *)
RefreshFetchTop ==
    /\ run.pc = "fetch_top"
    /\ requests' = requests + 1
    /\ \/ \E v \in Versions :
            LET top_ids == TopIds(run.n)
                ph == Phase("running", Min(Cardinality(top_ids), run.n), run.n)
                job == [SetPhase(run.job, "top_n", ph) EXCEPT !.progress = ph.progress]
            IN  /\ run' = [run EXCEPT !.pc = "top_done", !.job = job, !.v = v,
                                      !.top_ids = top_ids, !.last_save = TRUE]
                /\ jobs' = SavedThrottled(job, {"params", "progress"}, TRUE)
       \/ /\ run' = Raise(RemoteError)
          /\ UNCHANGED jobs
    /\ UNCHANGED <<db, clock, last>>

(* the collection or details phase started with top_n left 'running' *)
RefreshTopStillRunning ==
    /\ run.pc = "top_done"
    /\ LET count == Cardinality(run.top_ids)
           progress_value == IF run.n <= 0 THEN count ELSE Min(count, run.n)
           job1 == [SetPhase(run.job, "top_n", Phase("running", progress_value, count))
                      EXCEPT !.progress = progress_value]
           tracked == Cardinality(run.normalized_usernames)
           job2 == SetPhase(job1, "collection", Phase("running", 0, tracked))
           combined == RankedMap(run.top_ids, run.v)
       IN  IF run.normalized_usernames # {}
           THEN /\ run' = [run EXCEPT !.pc = "collection", !.job = job2,
                                      !.combined = combined, !.idx = 1]
                /\ jobs' = Saved(job2, {"params", "progress"})
           ELSE /\ run' = [run EXCEPT !.pc = "details_prep", !.job = job1,
                                      !.combined = combined]
                /\ jobs' = Saved(job1, {"params", "progress"})
    /\ UNCHANGED <<db, clock, last, requests>>

(* lines 832-868 *)
RefreshTopDone ==
    /\ run.pc = "top_done"
    /\ LET count == Cardinality(run.top_ids)
           progress_value == IF run.n <= 0 THEN count ELSE Min(count, run.n)
           job1 == [SetPhase(run.job, "top_n", Phase("done", progress_value, count))
                      EXCEPT !.progress = progress_value]
           tracked == Cardinality(run.normalized_usernames)
           job2 == SetPhase(job1, "collection", Phase("running", 0, tracked))
           combined == RankedMap(run.top_ids, run.v)
       IN  IF run.normalized_usernames # {}
           THEN /\ run' = [run EXCEPT !.pc = "collection", !.job = job2,
                                      !.combined = combined, !.idx = 1]
                /\ jobs' = Saved(job2, {"params", "progress"})
           ELSE /\ run' = [run EXCEPT !.pc = "details_prep", !.job = job1,
                                      !.combined = combined]
                /\ jobs' = Saved(job1, {"params", "progress"})
    /\ UNCHANGED <<db, clock, last, requests>>

(* lines 895-906: an owned item is merged into combined *)
Overlay(entry, data) ==
    [ entry EXCEPT
        !.Title = IF data.Title # "" THEN data.Title ELSE @,
        !.Type = IF data.Type # None THEN data.Type ELSE @,
        !.AvgRating = IF data.AvgRating # None THEN data.AvgRating ELSE @,
        !.NumVoters = IF data.NumVoters # None THEN data.NumVoters ELSE @ ]
(* only the ids combined already has *)
MergeOwnedRankedOnly(combined, user_owned_map) ==
    [ gid \in DOMAIN combined |->
        IF gid \in DOMAIN user_owned_map
        THEN Overlay(combined[gid], user_owned_map[gid])
        ELSE combined[gid] ]

MergeOwned(combined, user_owned_map) ==
    [ gid \in (DOMAIN combined) \cup (DOMAIN user_owned_map) |->
        IF gid \notin DOMAIN user_owned_map THEN combined[gid]
        ELSE IF gid \in DOMAIN combined
             THEN Overlay(combined[gid], user_owned_map[gid])
             ELSE user_owned_map[gid] ]

(* lines 870-929: the collection of the next username, one request per     *)
(* subtype; on_coll_progress changes fields the final save overwrites      *)
RefreshFetchCollection ==
    /\ run.pc = "collection"
    /\ LET users == SortedUsers(run.normalized_usernames)
           username == users[run.idx]
       IN  \/ /\ \E user_ids \in OwnedIdSets :
                    LET is_last == run.idx = Len(users)
                        ph == Phase(IF is_last THEN "done" ELSE "running",
                                    run.idx, Len(users))
                        job == SetPhase(run.job, "collection", ph)
                    IN  /\ run' = [run EXCEPT
                                     !.pc = IF is_last THEN "details_prep" ELSE "collection",
                                     !.job = job, !.idx = @ + 1,
                                     !.collections_map =
                                         [u \in (DOMAIN @) \cup {username} |-> 
                                             IF u = username THEN user_ids ELSE @[u]],
                                     !.combined =
                                         MergeOwned(@, OwnedMap(user_ids, run.v))]
                        /\ jobs' = Saved(job, {"params"})
              /\ requests' = requests + 2
           \/ /\ run' = Raise(RemoteError)
              /\ requests' = requests + 1
              /\ UNCHANGED jobs
    /\ UNCHANGED <<db, clock, last>>

(* lines 933-949; the cache of _ensure_collections is the set of the       *)
(* usernames whose Collection it holds                                     *)
RefreshDetailsPrep ==
    /\ run.pc = "details_prep"
    /\ LET all_ids == SortedIds(run.top_ids)
                          \o SortedIds((DOMAIN run.combined) \ run.top_ids)
           job == [SetPhase(run.job, "details", Phase("running", 0, Len(all_ids)))
                     EXCEPT !.total = Len(all_ids)]
       IN  \/ /\ db' = _ensure_collections(db, DOMAIN run.collections_map)
              /\ run' = [run EXCEPT !.pc = "stream", !.job = job,
                                    !.all_ids = all_ids, !.pos = 0,
                                    !.applied = 0]
              /\ jobs' = Saved(job, {"total", "params"})
           \/ /\ run' = Raise(StorageError)
              /\ UNCHANGED <<db, jobs>>
    /\ UNCHANGED <<clock, last, requests>>

(* how many times in a row the detail endpoint answers that a batch is     *)
(* still being prepared                                                    *)
MaxQueued == 1

(* bgg_client.py 357-382 with on_details_progress(status="waiting")        *)
(* (tasks.py 953-988): the answer to the request for the next batch is a   *)
(* 'still processing' message, and the batch will be requested again       *)
RefreshDetailsWaiting ==
    /\ run.pc = "stream"
    /\ run.pos < Len(run.all_ids)
    /\ run.queue_retries < MaxQueued
    /\ requests' = requests + 1
    /\ LET ph == [run.job.params.phases.details EXCEPT !.status = "waiting"]
           job == [SetPhase(run.job, "details", ph)
                     EXCEPT !.progress = ph.progress, !.total = ph.total]
       IN  \E due \in Due :
                /\ run' = [run EXCEPT !.job = job, !.queue_retries = @ + 1,
                                      !.last_save = TRUE]
                /\ jobs' = SavedThrottled(job, {"params", "progress", "total"}, due)
    /\ UNCHANGED <<db, clock, last>>

(* the next batch of stream_details_batches (bgg_client.py 339-491) with   *)
(* on_details_progress (tasks.py 953-988): the response covers the ids of  *)
(* the batch, or all but the first of them                                 *)
RefreshStreamChunk ==
    /\ run.pc = "stream"
    /\ run.pos < Len(run.all_ids)
    /\ requests' = requests + 1
    /\ LET last_pos == Min(run.pos + run.batch_size, Len(run.all_ids))
           chunk == {run.all_ids[i] : i \in (run.pos + 1)..last_pos}
           ph == Phase("running", last_pos, Len(run.all_ids))
           job == [SetPhase(run.job, "details", ph)
                     EXCEPT !.progress = ph.progress, !.total = ph.total]
       IN  \/ \E D \in {chunk, chunk \ {run.all_ids[run.pos + 1]}}, due \in Due :
                /\ run' = [run EXCEPT !.pc = "apply", !.job = job, !.pos = last_pos,
                                      !.chunk_ids = chunk, !.D = D, !.last_save = TRUE,
                                      !.queue_retries = 0]
                /\ jobs' = SavedThrottled(job, {"params", "progress", "total"}, due)
           \/ /\ run' = Raise(RemoteError)
              /\ UNCHANGED jobs
    /\ UNCHANGED <<db, clock, last>>

(* a loop that may hand the chunk it holds to the reconciler again *)
RefreshApplyChunkReplayed ==
    /\ run.pc = "apply"
    /\ db' = _sync_refresh_chunk(db, run.chunk_ids, run.combined,
                                 DetailsMap(run.D, run.v), PollsMap(run.D, run.v),
                                 _build_owners_lookup(run.collections_map),
                                 NormalizedUsernames(DOMAIN run.collections_map),
                                 clock + 1)
    /\ clock' = clock + 1
    /\ \E pc \in {"stream", "apply"} :
          run' = [run EXCEPT !.pc = pc, !.applied = run.pos]
    /\ UNCHANGED <<last, jobs, requests>>

(* lines 993-1001: the body of the for loop over the stream; applied is    *)
(* the number of ids of all_ids handed to _sync_refresh_chunk so far       *)
RefreshApplyChunk ==
    /\ run.pc = "apply"
    /\ \/ /\ db' = _sync_refresh_chunk(db, run.chunk_ids, run.combined,
                                       DetailsMap(run.D, run.v), PollsMap(run.D, run.v),
                                       _build_owners_lookup(run.collections_map),
                                       NormalizedUsernames(DOMAIN run.collections_map),
                                       clock + 1)
          /\ clock' = clock + 1
          /\ run' = [run EXCEPT !.pc = "stream", !.applied = run.pos]
       \/ /\ run' = Raise(StorageError)
          /\ UNCHANGED <<db, clock>>
    /\ UNCHANGED <<last, jobs, requests>>

(* lines 1003-1031: the stream is exhausted *)
RefreshDetailsDone ==
    /\ run.pc = "stream"
    /\ run.pos = Len(run.all_ids)
    /\ LET total == Len(run.all_ids)
           job == SetPhase(SetPhase(run.job, "details", Phase("done", total, total)),
                           "cleanup", Phase("running", 0, 1))
       IN  /\ run' = [run EXCEPT !.pc = "prune", !.job = job]
           /\ jobs' = Saved(job, {"params"})
    /\ UNCHANGED <<db, clock, last, requests>>

(* line 1033 *)
RefreshPrune ==
    /\ run.pc = "prune"
    /\ \/ /\ db' = _prune_games_after_refresh(
                       db, {run.all_ids[i] : i \in 1..Len(run.all_ids)})
          /\ run' = [run EXCEPT !.pc = "finish"]
       \/ /\ run' = Raise(StorageError)
          /\ UNCHANGED db
    /\ UNCHANGED <<clock, last, jobs, requests>>

(* a final save that stores the progress of the top_n phase *)
RefreshFinishTopProgress(job) ==
    [job EXCEPT !.status = "done", !.finished_at = Some(clock + 1),
                !.progress = job.params.phases.top_n.progress]

(* lines 1049-1052 *)
RefreshFinish(job) ==
    [job EXCEPT !.status = "done", !.finished_at = Some(clock + 1),
                !.progress = job.total]

(* the handler entered after the final save *)
RefreshDoneThenRaise ==
    /\ run.pc = "finish" /\ run.kind = "refresh"
    /\ LET job == RefreshFinish(SetPhase(run.job, "cleanup", Phase("done", 1, 1)))
       IN  /\ run' = [run EXCEPT !.pc = "except", !.job = job, !.exc = StorageError]
           /\ jobs' = Saved(job, {"status", "finished_at", "progress", "params"})
    /\ clock' = clock + 1
    /\ UNCHANGED <<db, last, requests>>

(* lines 1036-1056 *)
RefreshDone ==
    /\ run.pc = "finish" /\ run.kind = "refresh"
    /\ LET job == RefreshFinish(SetPhase(run.job, "cleanup", Phase("done", 1, 1)))
       IN  /\ run' = [run EXCEPT !.pc = "returned", !.job = job]
           /\ jobs' = Saved(job, {"status", "finished_at", "progress", "params"})
    /\ clock' = clock + 1
    /\ UNCHANGED <<db, last, requests>>

(* the except blocks, lines 699-704, 739-744, 1058-1063 *)
RunnerExcept ==
    /\ run.pc = "except"
    /\ LET job == [run.job EXCEPT !.status = "error", !.error = run.exc,
                                  !.finished_at = Some(clock + 1)]
       IN  /\ run' = [run EXCEPT !.pc = "returned", !.job = job]
           /\ jobs' = Saved(job, {"status", "error", "finished_at"})
    /\ clock' = clock + 1
    /\ UNCHANGED <<db, last, requests>>

(***************************************************************************)
(* run_fetch_top_n (tasks.py 660-704).                                     *)
(***************************************************************************)
(* lines 661-669 *)
TopNStart ==
    /\ run.pc = "start" /\ run.kind = "top_n"
    /\ LET job == [jobs[run.job_id] EXCEPT
                     !.status = "running", !.progress = 0, !.total = run.n,
                     !.params.zip_url =
                         IF run.ranks_zip_url # None THEN run.ranks_zip_url ELSE @]
       IN  /\ run' = [run EXCEPT !.pc = "top_ranks", !.job = job]
           /\ jobs' = Saved(job, {"status", "progress", "total", "params"})
    /\ UNCHANGED <<db, clock, last, requests>>

(* lines 672-685 *)
TopNFetchRanks ==
    /\ run.pc = "top_ranks"
    /\ IF run.job.params.zip_url = None
       THEN /\ run' = Raise(ConfigError)
            /\ UNCHANGED <<jobs, requests>>
       ELSE /\ requests' = requests + 1
            /\ \/ \E v \in Versions :
                    LET ids == TopIds(run.n)
                        job == [run.job EXCEPT !.total = Cardinality(ids),
                                               !.progress = Cardinality(ids)]
                    IN  /\ run' = [run EXCEPT !.pc = "top_details", !.job = job,
                                              !.v = v, !.top_ids = ids,
                                              !.combined = RankedMap(ids, v)]
                        /\ jobs' = Saved(job, {"total", "progress"})
               \/ /\ run' = Raise(RemoteError)
                  /\ UNCHANGED jobs
    /\ UNCHANGED <<db, clock, last>>

(* line 688: one batch of up to 20 ids *)
TopNFetchDetails ==
    /\ run.pc = "top_details"
    /\ requests' = requests + 1
    /\ \/ \E D \in {run.top_ids, run.top_ids \ {1}} :
            run' = [run EXCEPT !.pc = "top_sync", !.D = D]
       \/ run' = Raise(RemoteError)
    /\ UNCHANGED <<db, clock, last, jobs>>

(* line 691 *)
TopNSync ==
    /\ run.pc = "top_sync"
    /\ \/ LET res == _sync_catalog(db, run.combined, DetailsMap(run.D, run.v),
                                   PollsMap(run.D, run.v), <<>>, TRUE, clock + 1)
          IN  /\ db' = res.db
              /\ clock' = clock + 1
              /\ run' = IF res.raised THEN Raise(PollKeyError)
                        ELSE [run EXCEPT !.pc = "finish"]
       \/ /\ run' = Raise(StorageError)
          /\ UNCHANGED <<db, clock>>
    /\ UNCHANGED <<last, jobs, requests>>

(* lines 694-697 *)
TopNDone ==
    /\ run.pc = "finish" /\ run.kind = "top_n"
    /\ LET job == [run.job EXCEPT !.status = "done", !.finished_at = Some(clock + 1),
                                  !.progress = run.job.total]
       IN  /\ run' = [run EXCEPT !.pc = "returned", !.job = job]
           /\ jobs' = Saved(job, {"status", "finished_at", "progress"})
    /\ clock' = clock + 1
    /\ UNCHANGED <<db, last, requests>>

(***************************************************************************)
(* run_fetch_collection (tasks.py 707-744).                                *)
(***************************************************************************)
(* lines 708-711 *)
CollectionStart ==
    /\ run.pc = "start" /\ run.kind = "collection"
    /\ LET job == [jobs[run.job_id] EXCEPT !.status = "running", !.progress = 0]
       IN  /\ run' = [run EXCEPT !.pc = "coll_owned", !.job = job]
           /\ jobs' = Saved(job, {"status", "progress"})
    /\ UNCHANGED <<db, clock, last, requests>>

(* lines 717-725: one request per subtype *)
CollectionFetchOwned ==
    /\ run.pc = "coll_owned"
    /\ \/ /\ \E ids \in OwnedIdSets, v \in Versions :
                LET job == [run.job EXCEPT !.total = Cardinality(ids),
                                           !.progress = Cardinality(ids)]
                IN  /\ run' = [run EXCEPT !.pc = "coll_details", !.job = job, !.v = v,
                                          !.top_ids = ids,
                                          !.combined = OwnedMap(ids, v)]
                    /\ jobs' = Saved(job, {"total", "progress"})
          /\ requests' = requests + 2
       \/ /\ run' = Raise(RemoteError)
          /\ requests' = requests + 1
          /\ UNCHANGED jobs
    /\ UNCHANGED <<db, clock, last>>

(* line 728: no request when the collection is empty *)
CollectionFetchDetails ==
    /\ run.pc = "coll_details"
    /\ IF run.top_ids = {}
       THEN /\ run' = [run EXCEPT !.pc = "coll_sync", !.D = {}]
            /\ UNCHANGED requests
       ELSE /\ requests' = requests + 1
            /\ \/ \E D \in {run.top_ids, run.top_ids \ {MaxId}} :
                    run' = [run EXCEPT !.pc = "coll_sync", !.D = D]
               \/ run' = Raise(RemoteError)
    /\ UNCHANGED <<db, clock, last, jobs>>

(* lines 731-732 *)
CollectionSync ==
    /\ run.pc = "coll_sync"
    /\ \/ LET res == _sync_catalog(db, run.combined, DetailsMap(run.D, run.v),
                                   PollsMap(run.D, run.v),
                                   [u \in {run.username} |-> run.top_ids],
                                   FALSE, clock + 1)
          IN  /\ db' = res.db
              /\ clock' = clock + 1
              /\ run' = IF res.raised THEN Raise(PollKeyError)
                        ELSE [run EXCEPT !.pc = "finish"]
       \/ /\ run' = Raise(StorageError)
          /\ UNCHANGED <<db, clock>>
    /\ UNCHANGED <<last, jobs, requests>>

(* lines 735-737 *)
CollectionDone ==
    /\ run.pc = "finish" /\ run.kind = "collection"
    /\ LET job == [run.job EXCEPT !.status = "done", !.finished_at = Some(clock + 1)]
       IN  /\ run' = [run EXCEPT !.pc = "returned", !.job = job]
           /\ jobs' = Saved(job, {"status", "finished_at"})
    /\ clock' = clock + 1
    /\ UNCHANGED <<db, last, requests>>

(***************************************************************************)
(* JobSpec: one job from its trigger to the end of its thread, on an empty *)
(* store or on the store a refresh for alice and bob has left.             *)
(***************************************************************************)
StoreAfterRefresh ==
    LET collections_map == [u \in Users |-> IF u = "alice" THEN Ids ELSE {1}]
    IN  _sync_refresh_chunk(_ensure_collections(EmptyStore, Users), Ids,
                            OwnedMap(Ids, "v1"), DetailsMap(Ids, "v1"),
                            PollsMap(Ids, "v1"),
                            _build_owners_lookup(collections_map), Users, 0)

JobInit ==
    /\ db \in {EmptyStore, StoreAfterRefresh}
    /\ clock = 0
    /\ last = NoCall
    /\ jobs = <<>>
    /\ run = IdleRun
    /\ requests = 0

JobNext ==
    \/ home
    \/ CallRunner
    \/ RefreshPurge
    \/ RefreshSaveRunning
    \/ RefreshValidate
    \/ RefreshFetchTop
    \/ RefreshTopDone
    \/ RefreshFetchCollection
    \/ RefreshDetailsPrep
    \/ RefreshDetailsWaiting
    \/ RefreshStreamChunk
    \/ RefreshApplyChunk
    \/ RefreshDetailsDone
    \/ RefreshPrune
    \/ RefreshDone
    \/ TopNStart
    \/ TopNFetchRanks
    \/ TopNFetchDetails
    \/ TopNSync
    \/ TopNDone
    \/ CollectionStart
    \/ CollectionFetchOwned
    \/ CollectionFetchDetails
    \/ CollectionSync
    \/ CollectionDone
    \/ RunnerExcept

JobSpec == JobInit /\ [][JobNext]_vars

(***************************************************************************)
(* Properties of the reconciler.                                           *)
(***************************************************************************)
StoredIds == DOMAIN db.games
IsSyncCatalog == last.op \in {"_sync_catalog", "_sync_catalog again"}
OwnedMatchesLinks(store, gid) ==
    /\ store.games[gid].owned_by = LinkOwners(store, gid)
    /\ store.games[gid].owned = (LinkOwners(store, gid) # {})

(* C5: after a completed _sync_catalog with prune=True over a games map    *)
(* with key set S, and after _prune_games_after_refresh(S), no stored game *)
(* has an id outside S.                                                    *)
C5_PruneLeavesOnlyCandidates ==
    /\ (IsSyncCatalog /\ last.prune /\ ~last.raised) => StoredIds \subseteq last.K
    /\ (last.op = "_prune_games_after_refresh") => StoredIds \subseteq last.ids

(* a prune=True sync that found a game outside its key set *)
C5_Witness ==
    /\ last.op = "_sync_catalog" /\ last.prune /\ ~last.raised
    /\ (DOMAIN last.pre.games) \ last.K # {}
    /\ StoredIds = last.K

(* C6: after a completed _sync_catalog given a collection_owned_map, every *)
(* stored game has owned_by equal to the usernames of the Collections      *)
(* linked to it and owned true exactly when there is such a link.          *)
C6_OwnedByMatchesLinks ==
    (IsSyncCatalog /\ ~last.raised /\ last.collection_owned_map # <<>>)
        => \A gid \in StoredIds : OwnedMatchesLinks(db, gid)

(* C7: after every _sync_catalog, _sync_refresh_chunk and                  *)
(* _purge_untracked_collections call, owned = (owned_by is non-empty) for  *)
(* every stored game.                                                      *)
C7_OwnedIffOwnedBy ==
    (IsSyncCatalog \/ last.op \in {"_sync_refresh_chunk", "_purge_untracked_collections"})
        => \A gid \in StoredIds : db.games[gid].owned = (db.games[gid].owned_by # {})

(* a sync that made a stored game nobody owned an owned one *)
C7_Witness ==
    /\ IsSyncCatalog /\ ~last.raised
    /\ \E gid \in StoredIds :
        /\ gid \in DOMAIN last.pre.games
        /\ ~last.pre.games[gid].owned
        /\ db.games[gid].owned
        /\ db.games[gid].owned_by # {}

(* the games that held a link of a Collection the purge deleted *)
LostLink(gid) ==
    \E u \in last.pre.collections \ last.ids : last.pre.owned[u][gid] > 0

(* C8: after _purge_untracked_collections(keep) no Collection outside keep *)
(* and none of its links remain, every game that lost a link has owned /   *)
(* owned_by equal to the usernames of its remaining links, and an empty    *)
(* keep set deletes every Collection.                                      *)
C8_PurgeUntracked ==
    (last.op = "_purge_untracked_collections") =>
        /\ db.collections \subseteq last.ids
        /\ \A u \in Users \ last.ids : \A gid \in Ids : db.owned[u][gid] = 0
        /\ \A gid \in StoredIds : LostLink(gid) => OwnedMatchesLinks(db, gid)
        /\ (last.ids = {} => db.collections = {})

(* a purge after which a game that lost a link is still owned by a kept user *)
C8_Witness ==
    /\ last.op = "_purge_untracked_collections"
    /\ \E gid \in StoredIds :
        /\ LostLink(gid)
        /\ db.games[gid].owned_by # {}
        /\ db.games[gid].owned_by # last.pre.games[gid].owned_by

(* the ids whose player-count map a call applies *)
AppliedIds ==
    IF IsSyncCatalog THEN last.K
    ELSE IF last.op = "_sync_refresh_chunk" THEN last.K \cap last.D
    ELSE {}

(* C9: after _sync_catalog or _sync_refresh_chunk applies an item whose    *)
(* incoming player-count map has count set C, the item has exactly one row *)
(* per count of C, holding the incoming values, and none for another       *)
(* count; no (item, count) pair has two rows.                              *)
C9_ReplaceByCount ==
    /\ \A gid \in Ids : \A c \in Counts : Len(db.player_counts[gid][c]) <= 1
    /\ ~last.raised =>
        \A gid \in AppliedIds : \A c \in Counts :
            LET counts == CountsOf(PlayerCountsOf(last), gid)
            IN  IF c \in SeenCounts(counts)
                THEN db.player_counts[gid][c] = <<RecRow(counts[Some(c)])>>
                ELSE db.player_counts[gid][c] = <<>>

(* a call that deleted the row of one count and rewrote the row of another *)
C9_Witness ==
    /\ ~last.raised
    /\ \E gid \in AppliedIds : \E c1, c2 \in Counts :
        /\ last.pre.player_counts[gid][c1] # <<>>
        /\ db.player_counts[gid][c1] = <<>>
        /\ last.pre.player_counts[gid][c2] # <<>>
        /\ db.player_counts[gid][c2] # <<>>
        /\ db.player_counts[gid][c2] # last.pre.player_counts[gid][c2]

(* the store without the timestamps of its rows *)
Content(store) ==
    [ store EXCEPT !.games =
        [ gid \in DOMAIN store.games |->
            [store.games[gid] EXCEPT !.created_at = 0, !.updated_at = 0] ] ]
NoDuplicateRows(store) ==
    /\ \A gid \in Ids : \A c \in Counts : Len(store.player_counts[gid][c]) <= 1
    /\ \A u \in Users : \A gid \in Ids : store.owned[u][gid] <= 1

(* C10: a second _sync_catalog with the inputs of the first leaves every   *)
(* table as the first left it, timestamps aside, and no duplicate row.     *)
C10_SyncCatalogIdempotent ==
    (last.op = "_sync_catalog again" /\ ~last.raised) =>
        /\ Content(db) = Content(last.pre)
        /\ NoDuplicateRows(db)

(* a repeated call over a store with games, recommendation rows,           *)
(* categories, a Collection and links                                      *)
C10_Witness ==
    /\ last.op = "_sync_catalog again" /\ ~last.raised
    /\ last.K # {} /\ last.D # {}
    /\ db.collections # {}
    /\ db.categories # {}
    /\ \E gid \in StoredIds :
        /\ db.games[gid].owned
        /\ \E c \in Counts : db.player_counts[gid][c] # <<>>

(***************************************************************************)
(* Properties of the jobs.                                                 *)
(***************************************************************************)
Job == jobs[run.job_id]
Returned == run.pc = "returned"
TrackedIds == UNION {run.collections_map[u] : u \in DOMAIN run.collections_map}

(* C1: in the three runners, when a step after the job is loaded raises,   *)
(* the exception does not escape to the worker thread, and the runner      *)
(* returns with the job stored in status 'error', with a non-empty error   *)
(* message and finished_at set.                                            *)
C1_FailuresAreRecorded ==
    /\ ~run.escaped
    /\ (Returned /\ run.exc # "") =>
          /\ Job.status = "error"
          /\ Job.error # ""
          /\ Job.finished_at # None

(* C2: the stored status of a job is created 'pending' and only ever moves *)
(* pending -> running -> done or pending -> running -> error; nothing      *)
(* follows done or error.                                                  *)
StatusStep ==
    /\ (jobs = <<>> /\ jobs' # <<>>) => jobs'[1].status = "pending"
    /\ (jobs # <<>> /\ jobs' # <<>>) =>
          \/ jobs'[1].status = jobs[1].status
          \/ <<jobs[1].status, jobs'[1].status>> \in
                {<<"pending", "running">>, <<"running", "done">>,
                 <<"running", "error">>}
C2_StatusFollowsStateMachine == [][StatusStep]_vars

(* a refresh that failed after it was stored as running *)
C2_Witness ==
    /\ Returned /\ run.kind = "refresh"
    /\ Job.status = "error"
    /\ Job.params.phases.top_n.status = "done"

(* C3: a run_refresh with no ranks source, neither as argument nor in the  *)
(* stored params, sends no request and changes no Collection, OwnedGame or *)
(* Game row, and ends in status 'error' with the configuration message.    *)
C3_ValidationFirst ==
    (run.kind = "refresh" /\ run.ranks_zip_url = None /\ Job.params.zip_url = None) =>
        /\ requests = 0
        /\ db = run.start_db
        /\ Returned => (Job.status = "error" /\ Job.error = ConfigError)

(* C4: when run_refresh ends in status 'done', the stored Game ids are the *)
(* ids of the ranked fetch united with the ids of every tracked user's     *)
(* collection.                                                             *)
C4_DoneStoresCandidates ==
    (Returned /\ run.kind = "refresh" /\ Job.status = "done") =>
        StoredIds = run.top_ids \cup TrackedIds

(* a refresh that is done and has stored an id that only a tracked user's  *)
(* collection holds                                                        *)
C4_Witness ==
    /\ Returned /\ run.kind = "refresh" /\ Job.status = "done"
    /\ (TrackedIds \ run.top_ids) \ DOMAIN run.start_db.games # {}

(***************************************************************************)
(* Chunked and whole reconciliation.                                       *)
(***************************************************************************)
(* tasks.py 993-1001: _sync_refresh_chunk over the batches of all_ids, in  *)
(* order, each batch with the details and polls of its own ids             *)
RECURSIVE ApplyChunks(_, _, _, _, _, _, _, _)
ApplyChunks(store, all_ids, batch_size, games_map, details_map, player_counts, owners_lookup, now) ==
    IF all_ids = <<>> THEN store
    ELSE LET size == Min(batch_size, Len(all_ids))
             chunk_ids == {all_ids[i] : i \in 1..size}
             applied == _sync_refresh_chunk(store, chunk_ids, games_map,
                                            Restrict(details_map, chunk_ids),
                                            Restrict(player_counts, chunk_ids),
                                            owners_lookup, {}, now)
         IN  ApplyChunks(applied, SubSeq(all_ids, size + 1, Len(all_ids)), batch_size,
                         games_map, details_map, player_counts, owners_lookup, now)

(* tasks.py 993-1033: the chunks, then the prune to the same id set *)
ChunkedRefresh(store, games_map, details_map, player_counts, batch_size, now) ==
    _prune_games_after_refresh(
        ApplyChunks(store, SortedIds(DOMAIN games_map), batch_size, games_map,
                    details_map, player_counts, <<>>, now),
        DOMAIN games_map)

(* the Game columns and PlayerCountRecommendation rows that the two        *)
(* reconcilers both write                                                  *)
CatalogTables(store) ==
    [ games |->
        [ gid \in DOMAIN store.games |->
            LET game == store.games[gid]
            IN  [ title |-> game.title, type |-> game.type, year |-> game.year,
                  avg_rating |-> game.avg_rating, num_voters |-> game.num_voters,
                  weight |-> game.weight, weight_votes |-> game.weight_votes,
                  bgg_rank |-> game.bgg_rank ] ],
      player_counts |-> store.player_counts ]

(* C11: on any store, _sync_refresh_chunk over the batches of an id set    *)
(* followed by the prune to that set leaves the same Game and              *)
(* PlayerCountRecommendation contents as one _sync_catalog call with prune *)
(* over the same games map, details map and player-count map.              *)
C11_ChunkedEqualsWhole ==
    \A call \in {c \in DataSyncCalls : c.prune /\ c.D \in DataDetailSets(c.K)} :
        \A batch_size \in BatchSizes :
            CatalogTables(ChunkedRefresh(db, GamesMapOf(call), DetailsMapOf(call),
                                         PlayerCountsOf(call), batch_size, clock + 1))
              = CatalogTables(_sync_catalog(db, GamesMapOf(call), DetailsMapOf(call),
                                            PlayerCountsOf(call), <<>>, TRUE,
                                            clock + 1).db)

(***************************************************************************)
(* Kind and rank of the items of the ranked dump.                          *)
(***************************************************************************)
(* the detail record of gid in the last call carries no rank *)
DetailWithoutRank(gid) ==
    gid \notin last.D \/ ThingDetail(gid, last.v).BGGRank = None

(* C12: an item ingested from the ranked dump, by the _sync_catalog call   *)
(* of run_fetch_top_n or the _sync_refresh_chunk call of run_refresh, is   *)
(* stored with the kind the dump gives it and, when its detail record      *)
(* carries no rank, with the rank of the dump.                             *)
C12_RankedKindAndRank ==
    (last.op \in {"_sync_catalog", "_sync_refresh_chunk"} /\ last.src = "ranked") =>
        \A gid \in last.K :
            /\ db.games[gid].type =
                  IF RankedEntry(gid, last.v).Type = ExpansionStr
                  THEN "Expansion" ELSE "Base Game"
            /\ DetailWithoutRank(gid) =>
                  db.games[gid].bgg_rank = RankedEntry(gid, last.v).BGGRank

(***************************************************************************)
(* The remote client (services/bgg_client.py).  A client call runs on the  *)
(* thread `run`: run holds the call, the locals of its retry loops, the    *)
(* last answer of the remote service and the backoff sleep that followed   *)
(* it (the pacing sleeps of lines 323 and 490 are not recorded), and the   *)
(* parity of the number of requests sent.                                  *)
(***************************************************************************)
(* what the remote service answers to one request: a status with a parsed  *)
(* body ("queued" is 202 with a 'still processing' message and no item,    *)
(* "202 empty" is 202 with no item and no message text), a 429 with its    *)
(* Retry-After header, or no answer at all                                 *)
RetryAfterHeaders == {"", "5", "0", "soon"}
Accepted == {"queued", "202 empty"}
Answers ==
    {[status |-> st, retry_after |-> ""] :
        st \in {"200", "403", "500", "timeout"} \cup Accepted}
        \cup {[status |-> "429", retry_after |-> h] : h \in RetryAfterHeaders}

(* float(retry_after), bgg_client.py 66-70: the seconds, or None when the  *)
(* header is missing or is not a number                                    *)
ParseRetryAfter(header) ==
    CASE header = "5" -> Some(5)
      [] header = "0" -> Some(0)
      [] OTHER -> None

DefaultMaxRetries == 5
DetailMaxRetries == 8
MinRateRetries == 6
RateWaitStep == 15
RateWaitCap == 90
BackoffBase == 2
BackoffCap == 120

Max(a, b) == IF a >= b THEN a ELSE b
RECURSIVE Pow(_, _)
Pow(base, k) == IF k = 0 THEN 1 ELSE base * Pow(base, k - 1)

ClientIdle ==
    [ pc |-> "idle", call |-> "none", target |-> 0, max_retries |-> 0,
      fatal_statuses |-> {}, retries |-> 0, rate_limit_retries |-> 0,
      answer |-> [status |-> "", retry_after |-> ""], slept |-> None,
      outcome |-> "", queue_retries |-> 0, queue_wait |-> None,
      prev_queue_wait |-> None, parity |-> 0, rows |-> <<>>, n |-> 0,
      results |-> [ids |-> <<>>, rows |-> <<>>], yielded |-> 0, items |-> 0,
      error |-> "" ]

(* _get, lines 56-58 *)
EnterGet(frame, max_retries, fatal_statuses) ==
    [ frame EXCEPT !.pc = "request", !.max_retries = max_retries,
                   !.fatal_statuses = fatal_statuses, !.retries = 0,
                   !.rate_limit_retries = 0 ]

(* a handler that gives up one retry early *)
GetTransportErrorOneRetryShort(frame) ==
    LET retries == frame.retries + 1
    IN  IF retries >= frame.max_retries
        THEN [frame EXCEPT !.retries = retries, !.slept = None,
                           !.outcome = "raised", !.error = "RequestException"]
        ELSE [frame EXCEPT !.retries = retries,
                           !.slept = Some(Min(Pow(BackoffBase, retries), BackoffCap)),
                           !.outcome = "retry"]

(* lines 100-106: a RequestException inside the loop *)
GetTransportError(frame) ==
    LET retries == frame.retries + 1
    IN  IF retries > frame.max_retries
        THEN [frame EXCEPT !.retries = retries, !.slept = None,
                           !.outcome = "raised", !.error = "RequestException"]
        ELSE [frame EXCEPT !.retries = retries,
                           !.slept = Some(Min(Pow(BackoffBase, retries), BackoffCap)),
                           !.outcome = "retry"]

(* a 429 handler that never reads the Retry-After header *)
GetRateLimitedIgnoringHeader(frame, header) ==
    LET rate_limit_retries == frame.rate_limit_retries + 1
        max_rate_retries == Max(frame.max_retries * 2, MinRateRetries)
    IN  [ frame EXCEPT
            !.rate_limit_retries = rate_limit_retries,
            !.slept = Some(Min(RateWaitStep * rate_limit_retries, RateWaitCap)),
            !.outcome = IF rate_limit_retries >= max_rate_retries
                        THEN "raised" ELSE "retry",
            !.error = IF rate_limit_retries >= max_rate_retries
                      THEN "BGG rate limit hit repeatedly while fetching data."
                      ELSE @ ]

(* lines 62-83: a 429 *)
GetRateLimited(frame, header) ==
    LET rate_limit_retries == frame.rate_limit_retries + 1
        max_rate_retries == Max(frame.max_retries * 2, MinRateRetries)
        hint == IF header # "" THEN ParseRetryAfter(header) ELSE None
        wait == IF hint # None THEN hint[1]
                ELSE Min(RateWaitStep * rate_limit_retries, RateWaitCap)
    IN  [ frame EXCEPT
            !.rate_limit_retries = rate_limit_retries,
            !.slept = Some(wait),
            !.outcome = IF rate_limit_retries >= max_rate_retries
                        THEN "raised" ELSE "retry",
            !.error = IF rate_limit_retries >= max_rate_retries
                      THEN "BGG rate limit hit repeatedly while fetching data."
                      ELSE @ ]

(* one pass of the loop of _get, lines 59-106, on the answer to its request *)
_get(frame, answer) ==
    LET heard == [frame EXCEPT !.answer = answer, !.parity = 1 - @]
    IN  CASE answer.status = "timeout" -> GetTransportError(heard)
          [] answer.status = "429" -> GetRateLimited(heard, answer.retry_after)
          [] answer.status \in heard.fatal_statuses ->
                [ heard EXCEPT !.rate_limit_retries = 0, !.slept = None,
                               !.outcome = "raised",
                               !.error = "BoardGameGeek ranks download returned HTTP 403." ]
          [] answer.status \in {"403", "500"} ->
                GetTransportError([heard EXCEPT !.rate_limit_retries = 0])
          [] OTHER ->
                [ heard EXCEPT !.rate_limit_retries = 0, !.slept = None,
                               !.outcome = "returned" ]

(* the locals of _get are gone when it returns or raises *)
LeaveGet(frame) == [frame EXCEPT !.retries = 0, !.rate_limit_retries = 0]

(***************************************************************************)
(* fetch_top_games_ranks (bgg_client.py 110-185).                          *)
(***************************************************************************)
MaxRows == 3

(* rows of the ranks CSV: rank, id, name as the text of their columns *)
DumpRow(rank, id, name) == [rank |-> rank, id |-> id, name |-> name]
DumpRows ==
    { DumpRow("7", "1", "Catan"), DumpRow("8", "2", "Azul"),
      DumpRow("9", "1", "Catan II"), DumpRow("0", "2", "Azul"),
      DumpRow("N/A", "2", "Azul"), DumpRow("7", "", "Azul"),
      DumpRow("7", "2", "") }
DumpFiles == UNION {[1..len -> DumpRows] : len \in 0..MaxRows}

(* int(row.get('rank') or 0), lines 131-134: None when int() raises *)
ParseRank(text) ==
    CASE text = "7" -> Some(7)
      [] text = "8" -> Some(8)
      [] text = "9" -> Some(9)
      [] text = "0" -> Some(0)
      [] text = "" -> Some(0)
      [] OTHER -> None

(* lines 131-140 *)
RowIsKept(row) ==
    /\ ParseRank(row.rank) # None
    /\ ParseRank(row.rank)[1] > 0
    /\ row.id # ""
    /\ row.name # ""

(* results[gid] = {...}: a dict keeps the place of the first insertion of  *)
(* a key and the value of the last                                         *)
PutRow(results, row) ==
    IF \E k \in 1..Len(results.ids) : results.ids[k] = row.id
    THEN [results EXCEPT !.rows[row.id] = row]
    ELSE [ ids |-> Append(results.ids, row.id),
           rows |-> [gid \in (DOMAIN results.rows) \cup {row.id} |->
                        IF gid = row.id THEN row ELSE results.rows[gid]] ]

(* the loop of lines 130-173 from row i on *)
RECURSIVE ScanRows(_, _, _, _, _)
ScanRows(rows, i, n, processed, results) ==
    IF i > Len(rows) THEN results
    ELSE IF ~RowIsKept(rows[i]) THEN ScanRows(rows, i + 1, n, processed, results)
    ELSE IF processed + 1 >= n THEN PutRow(results, rows[i])
    ELSE ScanRows(rows, i + 1, n, processed + 1, PutRow(results, rows[i]))

NoResults == [ids |-> <<>>, rows |-> <<>>]

CallFetchTopRanks ==
    /\ run.pc = "idle"
    /\ \E n \in 0..MaxRows :
        run' = [ EnterGet(run, DefaultMaxRetries, {"403"}) EXCEPT
                   !.call = "fetch_top_games_ranks", !.n = n ]
    /\ UNCHANGED <<db, clock, last, jobs, requests>>

(* one request of the download, lines 113-118 *)
RanksRequest ==
    /\ run.pc = "request" /\ run.call = "fetch_top_games_ranks"
    /\ \E answer \in Answers :
        LET got == _get(run, answer)
        IN  run' = CASE got.outcome = "retry" -> got
                     [] got.outcome = "raised" ->
                           [LeaveGet(got) EXCEPT
                              !.pc = "raised",
                              !.error = "Failed to download ranks ZIP."]
                     [] answer.status # "200" ->
                           [LeaveGet(got) EXCEPT
                              !.pc = "raised",
                              !.error = "Ranks ZIP was invalid or corrupted."]
                     [] OTHER -> [LeaveGet(got) EXCEPT !.pc = "parse"]
    /\ UNCHANGED <<db, clock, last, jobs, requests>>

(* lines 120-185: the rows of the archive that was downloaded *)
RanksParse ==
    /\ run.pc = "parse"
    /\ \E rows \in DumpFiles :
        LET results == ScanRows(rows, 1, run.n, 0, NoResults)
        IN  run' = IF results.ids = <<>>
                   THEN [run EXCEPT
                           !.pc = "raised", !.rows = rows,
                           !.error = "Ranks CSV did not contain any ranked games."]
                   ELSE [run EXCEPT !.pc = "returned", !.rows = rows,
                                    !.results = results]
    /\ UNCHANGED <<db, clock, last, jobs, requests>>

(***************************************************************************)
(* fetch_owned_collection (bgg_client.py 257-324).                         *)
(***************************************************************************)
PollWaitStep == 5
PollWaitCap == 30
PollMaxRetries == 50
PollErrorWait == 5
Subtypes == 2

CallFetchOwnedCollection ==
    /\ run.pc = "idle"
    /\ run' = [run EXCEPT !.pc = "request", !.call = "fetch_owned_collection",
                          !.target = 1, !.retries = 0]
    /\ UNCHANGED <<db, clock, last, jobs, requests>>

(* one pass of the loop of lines 269-285 for the subtype run.target, with  *)
(* lines 286-323 when the answer is 200.  The loop compares retries with   *)
(* PollMaxRetries and with PollWaitCap only, so every value above          *)
(* PollMaxRetries behaves alike: the model keeps PollMaxRetries + 1 for    *)
(* all of them.  session.get is called directly: no answer is an exception *)
(* that leaves the method.                                                 *)
CollectionRequest ==
    /\ run.pc = "request" /\ run.call = "fetch_owned_collection"
    /\ \E answer \in Answers :
        LET heard == [run EXCEPT !.answer = answer, !.parity = 1 - @]
            retries == Min(run.retries + 1, PollMaxRetries + 1)
        IN  run' =
              CASE answer.status = "timeout" ->
                     [heard EXCEPT !.pc = "raised", !.slept = None,
                                   !.error = "RequestException"]
                [] answer.status \in Accepted ->
                     [heard EXCEPT !.retries = retries,
                                   !.slept = Some(Min(PollWaitStep * retries, PollWaitCap))]
                [] answer.status # "200" ->
                     IF retries > PollMaxRetries
                     THEN [heard EXCEPT !.pc = "raised", !.retries = retries,
                                        !.slept = None,
                                        !.error = "Collection fetch failed after many retries"]
                     ELSE [heard EXCEPT !.retries = retries,
                                        !.slept = Some(PollErrorWait)]
                [] OTHER ->
                     IF run.target < Subtypes
                     THEN [heard EXCEPT !.target = @ + 1, !.retries = 0, !.slept = None]
                     ELSE [heard EXCEPT !.pc = "returned", !.retries = 0,
                                        !.slept = None]
    /\ UNCHANGED <<db, clock, last, jobs, requests>>

(***************************************************************************)
(* _iter_details_batches (bgg_client.py 327-491), for the ids of Ids in    *)
(* batches of one id: run.target is the id of the chunk being requested.   *)
(***************************************************************************)
QueueWaitBase == 5
QueueWaitStep == 5
QueueWaitCap == 60
QueueRetryCap == 12

CallIterDetails ==
    /\ run.pc = "idle"
    /\ run' = [ EnterGet(run, DetailMaxRetries, {}) EXCEPT
                  !.call = "_iter_details_batches", !.target = 1,
                  !.queue_retries = 0 ]
    /\ UNCHANGED <<db, clock, last, jobs, requests>>

(* a queue handler that waits the same time before every retry *)
DetailsQueuedFixedWait(frame) ==
    LET queue_retries == frame.queue_retries + 1
        wait == QueueWaitBase + QueueWaitStep
        waited == [frame EXCEPT !.queue_retries = queue_retries,
                                !.slept = Some(wait),
                                !.prev_queue_wait = frame.queue_wait,
                                !.queue_wait = Some(wait)]
    IN  IF queue_retries >= QueueRetryCap
        THEN [waited EXCEPT !.pc = "raised",
                            !.error = "BGG is still preparing game details after multiple attempts"]
        ELSE EnterGet(waited, DetailMaxRetries, {})

(* lines 357-382: the answer has no item and a 'still processing' message *)
DetailsQueued(frame) ==
    LET queue_retries == frame.queue_retries + 1
        wait == Min(QueueWaitBase + queue_retries * QueueWaitStep, QueueWaitCap)
        waited == [frame EXCEPT !.queue_retries = queue_retries,
                                !.slept = Some(wait),
                                !.prev_queue_wait = frame.queue_wait,
                                !.queue_wait = Some(wait)]
    IN  IF queue_retries >= QueueRetryCap
        THEN [waited EXCEPT !.pc = "raised",
                            !.error = "BGG is still preparing game details after multiple attempts"]
        ELSE EnterGet(waited, DetailMaxRetries, {})

(* a yield that leaves queue_retries as it is *)
DetailsYieldKeepsCounter(frame) ==
    [frame EXCEPT !.pc = "yielded", !.yielded = frame.target,
                  !.items = IF frame.answer.status = "200" THEN 1 ELSE 0]

(* lines 383-491: the answer is parsed and the chunk yielded; the local    *)
(* `wait` keeps the value of the last queue wait; items is the number of   *)
(* item elements the parse found for the one id of the chunk               *)
DetailsYield(frame) ==
    [frame EXCEPT !.pc = "yielded", !.queue_retries = 0, !.yielded = frame.target,
                  !.items = IF frame.answer.status = "200" THEN 1 ELSE 0]

(* one request for the chunk run.target, line 343, and what lines 344-491  *)
(* do with the response _get returns                                       *)
DetailsRequest ==
    /\ run.pc = "request" /\ run.call = "_iter_details_batches"
    /\ \E answer \in Answers :
        LET got == _get(run, answer)
        IN  run' = CASE got.outcome = "retry" -> got
                     [] got.outcome = "raised" -> [LeaveGet(got) EXCEPT !.pc = "raised"]
                     [] answer.status = "queued" -> DetailsQueued(LeaveGet(got))
                     [] OTHER -> DetailsYield(LeaveGet(got))
    /\ UNCHANGED <<db, clock, last, jobs, requests>>

(* the consumer asks for the next chunk: the loop of line 339 goes on *)
DetailsNext ==
    /\ run.pc = "yielded"
    /\ run' = IF run.target < MaxId
              THEN [ EnterGet(run, DetailMaxRetries, {}) EXCEPT !.target = @ + 1 ]
              ELSE [run EXCEPT !.pc = "returned"]
    /\ UNCHANGED <<db, clock, last, jobs, requests>>

(***************************************************************************)
(* ClientSpec: one call of a client method against a remote service that   *)
(* answers each request as it likes.  ClientFairSpec: the same, and the    *)
(* thread keeps running.                                                   *)
(***************************************************************************)
ClientInit ==
    /\ db = EmptyStore
    /\ clock = 0
    /\ last = NoCall
    /\ jobs = <<>>
    /\ run = ClientIdle
    /\ requests = 0

ClientNext ==
    \/ CallFetchTopRanks
    \/ RanksRequest
    \/ RanksParse
    \/ CallFetchOwnedCollection
    \/ CollectionRequest
    \/ CallIterDetails
    \/ DetailsRequest
    \/ DetailsNext

ClientSpec == ClientInit /\ [][ClientNext]_vars
ClientFairSpec == ClientSpec /\ WF_vars(ClientNext)

(* one call of fetch_owned_collection on a thread that keeps running *)
CollectionNext ==
    \/ CallFetchOwnedCollection
    \/ CollectionRequest

CollectionFairSpec ==
    ClientInit /\ [][CollectionNext]_vars /\ WF_vars(CollectionNext)

(***************************************************************************)
(* Properties of the remote client.                                        *)
(***************************************************************************)
InCall(name) == run.call = name
Ended == run.pc \in {"returned", "raised"}

(* C13: fetch_owned_collection ends whatever the remote service answers,   *)
(* in particular when it keeps answering 202, and the wait before a        *)
(* re-poll after a 202 is linear in the number of polls and never above    *)
(* the cap of 30.                                                          *)
C13_CollectionFetchTerminates ==
    /\ [](InCall("fetch_owned_collection") /\ run.answer.status = "queued"
            => /\ run.slept # None
               /\ run.slept[1] <= PollWaitCap
               /\ run.slept[1] \in {PollWaitStep * run.retries, PollWaitCap})
    /\ (InCall("fetch_owned_collection") ~> Ended)

(***************************************************************************)
(* Rate limiting in _get.                                                  *)
(***************************************************************************)
UsesGet == run.call \in {"fetch_top_games_ranks", "_iter_details_batches"}

(* a step in which _get sends a request and hears a 429 *)
Hears429 ==
    /\ UsesGet /\ run.pc = "request"
    /\ run'.parity # run.parity
    /\ run'.answer.status = "429"

(* the wait lines 64-72 choose for the k-th consecutive 429 *)
RateWait(header, k) ==
    IF ParseRetryAfter(header) # None
    THEN ParseRetryAfter(header)[1]
    ELSE Min(RateWaitStep * k, RateWaitCap)

(* C14 as stated: every 429 in _get is followed by a sleep of the numeric  *)
(* Retry-After value, or of min(15*k, 90) for the k-th consecutive 429     *)
(* when there is none, and then by a retry of the same URL.                *)
C14_SleepThenRetry ==
    [][Hears429 =>
          /\ run'.slept = Some(RateWait(run'.answer.retry_after,
                                        run.rate_limit_retries + 1))
          /\ run'.pc = "request"
          /\ run'.target = run.target]_vars

(* C14: in _get the k-th consecutive 429 is followed by a sleep of exactly *)
(* the numeric Retry-After value v when there is one, and of min(15*k, 90) *)
(* only when the header is absent or not numeric; after the sleep the same *)
(* URL is requested again when k < max(2*max_retries, 6), and the call     *)
(* raises when k has reached that ceiling.                                 *)
C14_SleepThenRetryBelowCeiling ==
    [][Hears429 =>
          LET k == run.rate_limit_retries + 1
          IN  /\ run'.slept = Some(RateWait(run'.answer.retry_after, k))
              /\ k < Max(run.max_retries * 2, MinRateRetries) =>
                    /\ run'.pc = "request"
                    /\ run'.target = run.target
                    /\ run'.rate_limit_retries = k
              /\ k >= Max(run.max_retries * 2, MinRateRetries) =>
                    run'.pc = "raised"]_vars

(* the second 429 in a row carried Retry-After: 5; the client slept 5, not *)
(* the 30 of the default, and is about to request the same URL again       *)
C14_Witness ==
    /\ UsesGet /\ run.pc = "request"
    /\ run.answer = [status |-> "429", retry_after |-> "5"]
    /\ run.rate_limit_retries = 2
    /\ run.slept = Some(5)

(***************************************************************************)
(* Fatal statuses.                                                         *)
(***************************************************************************)
(* C15: in the ranks download, the collection fetch and the detail fetch   *)
(* alike, a 403 answer ends the call at once: the call has raised, no      *)
(* backoff sleep followed the answer and no further request is sent.       *)
C15_FatalStatusNeverRetried ==
    (run.call # "none" /\ run.answer.status = "403") =>
        /\ run.pc = "raised"
        /\ run.slept = None

(***************************************************************************)
(* 'Still processing' answers of the detail endpoint.                      *)
(***************************************************************************)
InDetails == run.call = "_iter_details_batches"

(* a step in which the request for the current chunk is answered *)
DetailsHears(status) ==
    /\ InDetails /\ run.pc = "request"
    /\ run'.parity # run.parity
    /\ run'.answer.status = status

(* C16: while the detail endpoint answers 'still processing' for a chunk   *)
(* fewer times than the attempt cap, _iter_details_batches requests that   *)
(* same chunk again, each time after a strictly longer wait than before    *)
(* the previous retry, never above the wait cap; the chunk requested       *)
(* changes only after a yield; and the success that follows is yielded for *)
(* that chunk, not raised.                                                 *)
C16_QueuedChunkIsRetried ==
    [][/\ DetailsHears("queued") /\ run.queue_retries + 1 < QueueRetryCap =>
            /\ run'.pc = "request"
            /\ run'.target = run.target
            /\ run'.yielded = run.yielded
            /\ run'.queue_wait # None
            /\ run'.slept = run'.queue_wait
            /\ run'.queue_wait[1] <= QueueWaitCap
            /\ run.queue_retries >= 1 => run'.queue_wait[1] > run.queue_wait[1]
       /\ DetailsHears("200") =>
            /\ run'.pc = "yielded"
            /\ run'.yielded = run.target
            /\ run'.target = run.target
       /\ (InDetails /\ run'.target # run.target) =>
            /\ run.pc = "yielded"
            /\ run'.target = run.target + 1]_vars

(* chunk 1 was answered 'still processing' twice, with waits of 10 and     *)
(* then 15, and has now been yielded                                       *)
C16_Witness ==
    /\ InDetails /\ run.pc = "yielded"
    /\ run.yielded = 1
    /\ run.answer.status = "200"
    /\ run.prev_queue_wait = Some(QueueWaitBase + QueueWaitStep)
    /\ run.queue_wait = Some(QueueWaitBase + 2 * QueueWaitStep)

(***************************************************************************)
(* The rows fetch_top_games_ranks returns.                                 *)
(***************************************************************************)
(* the rows of the file that qualify, in file order *)
RECURSIVE Qualifying(_)
Qualifying(rows) ==
    IF rows = <<>> THEN <<>>
    ELSE IF RowIsKept(Head(rows)) THEN <<Head(rows)>> \o Qualifying(Tail(rows))
    ELSE Qualifying(Tail(rows))

(* the dict that holds the given rows, inserted in order *)
RECURSIVE DictOf(_, _)
DictOf(results, rows) ==
    IF rows = <<>> THEN results
    ELSE DictOf(PutRow(results, Head(rows)), Tail(rows))

(* C17: fetch_top_games_ranks returns the first min(n, q) qualifying rows  *)
(* of the dump in file order, q being the number of qualifying rows, and   *)
(* never more than n entries, for every n and every row sequence.          *)
C17_FirstNQualifyingRows ==
    (InCall("fetch_top_games_ranks") /\ run.pc = "returned") =>
        LET kept == Qualifying(run.rows)
            count == Min(run.n, Len(kept))
        IN  /\ run.results = DictOf(NoResults, SubSeq(kept, 1, count))
            /\ Len(run.results.ids) <= run.n

(***************************************************************************)
(* The phases of a refresh job and the progress of a finished job.         *)
(***************************************************************************)
PhaseOrder == <<"top_n", "collection", "details", "cleanup">>
StoredPhases == Job.params.phases
PhaseStatus(i) == StoredPhases[PhaseOrder[i]].status

(* C18: in every stored state of a refresh job at most one phase is        *)
(* 'running', and a phase is 'running' only when every phase before it in  *)
(* the order top_n, collection, details, cleanup is 'done' or 'skipped'.   *)
C18_PhasesRunInOrder ==
    run.kind = "refresh" =>
        /\ Cardinality({i \in DOMAIN PhaseOrder : PhaseStatus(i) = "running"}) <= 1
        /\ \A i \in DOMAIN PhaseOrder :
              PhaseStatus(i) = "running" =>
                  \A j \in 1..(i - 1) : PhaseStatus(j) \in {"done", "skipped"}

(* the cleanup phase is stored 'running' after a collection phase that ran *)
C18_Witness ==
    /\ run.kind = "refresh"
    /\ StoredPhases.cleanup.status = "running"
    /\ StoredPhases.collection.status = "done"
    /\ StoredPhases.details.status = "done"
    /\ StoredPhases.top_n.status = "done"

(* C19: once a refresh job has stored its phases, every stored phase       *)
(* status is one of pending, running, done, skipped.                       *)
C19_PhaseStatusVocabulary ==
    (run.kind = "refresh" /\ StoredPhases # NoPhases) =>
        \A i \in DOMAIN PhaseOrder :
            PhaseStatus(i) \in {"pending", "running", "done", "skipped"}

(* C20: a job of any kind stored with status 'done' has its stored         *)
(* progress equal to its stored total.                                     *)
C20_DoneProgressIsTotal ==
    (run.kind # "none" /\ Job.status = "done") => Job.progress = Job.total

(* a refresh stored 'done' whose total grew past the ranked items *)
C20_Witness ==
    /\ run.kind = "refresh" /\ Job.status = "done"
    /\ Job.total > StoredPhases.top_n.total
    /\ Job.progress = Job.total

(***************************************************************************)
(* PollSpec: one results element of a suggested_numplayers poll, from its  *)
(* vote counts to the PlayerCountRecommendation row that is stored.  The   *)
(* votes stay below 16 in total, where no share lies halfway between two   *)
(* tenths, so that round(x, 1) is the nearest tenth.                       *)
(***************************************************************************)
MaxVotes == 4

PollInit ==
    /\ db = EmptyStore
    /\ clock = 0
    /\ last = NoCall
    /\ jobs = <<>>
    /\ requests = 0
    /\ \E best \in 0..MaxVotes, rec \in 0..MaxVotes, notrec \in 0..MaxVotes :
          run = [pc |-> "poll", best |-> best, rec |-> rec, notrec |-> notrec,
                 pc_map |-> <<>>]

(* bgg_client.py 449-481: pc_map of an item whose poll has the one results *)
(* element numplayers="1"                                                  *)
ParsePoll ==
    /\ run.pc = "poll"
    /\ run' = [run EXCEPT !.pc = "parsed",
                          !.pc_map = [k \in {Some(1)} |->
                                         PollEntry(run.best, run.rec, run.notrec)]]
    /\ UNCHANGED <<db, clock, last, jobs, requests>>

(* _sync_catalog over item 1 with that pc_map (tasks.py 233-306) *)
PollSyncCatalog ==
    /\ run.pc = "parsed"
    /\ LET res == _sync_catalog(db, RankedMap({1}, "v1"), DetailsMap({1}, "v1"),
                                [gid \in {1} |-> run.pc_map], <<>>, TRUE, clock + 1)
       IN  /\ db' = res.db
           /\ last' = [TopNCall({1}, "v1", {1}) EXCEPT !.raised = res.raised, !.pre = db]
    /\ clock' = clock + 1
    /\ run' = [run EXCEPT !.pc = "stored"]
    /\ UNCHANGED <<jobs, requests>>

(* _sync_refresh_chunk over item 1 with that pc_map (tasks.py 548-618) *)
PollSyncRefreshChunk ==
    /\ run.pc = "parsed"
    /\ db' = _sync_refresh_chunk(db, {1}, RankedMap({1}, "v1"), DetailsMap({1}, "v1"),
                                 [gid \in {1} |-> run.pc_map], <<>>, {}, clock + 1)
    /\ last' = [ChunkCall("ranked", {1}, "v1", {1}, {}) EXCEPT !.pre = db]
    /\ clock' = clock + 1
    /\ run' = [run EXCEPT !.pc = "stored"]
    /\ UNCHANGED <<jobs, requests>>

PollNext ==
    \/ ParsePoll
    \/ PollSyncCatalog
    \/ PollSyncRefreshChunk

PollSpec == PollInit /\ [][PollNext]_vars

(* C21: every stored PlayerCountRecommendation derived from vote counts    *)
(* has percentages, in tenths of a percent, that sum to at most 100.       *)
C21_PercentagesSumAtMost100 ==
    \A gid \in Ids : \A c \in Counts :
        \A i \in 1..Len(db.player_counts[gid][c]) :
            LET row == db.player_counts[gid][c][i]
            IN  row.best_pct + row.rec_pct + row.notrec_pct <= 1000

(***************************************************************************)
(* The year of an item upserted without a detail.                          *)
(***************************************************************************)
(* the ids the last call upserted that were stored before it and have no   *)
(* entry in its details map                                                *)
UpsertedWithoutDetail ==
    (last.K \cap DOMAIN last.pre.games) \ last.D

(* C22: after _sync_catalog or _sync_refresh_chunk, an item that was       *)
(* stored before the call and has no entry in the details map has the year *)
(* it had before the call.                                                 *)
C22_YearKeptWithoutDetail ==
    (IsSyncCatalog \/ last.op = "_sync_refresh_chunk") =>
        \A gid \in UpsertedWithoutDetail :
            db.games[gid].year = last.pre.games[gid].year

(***************************************************************************)
(* The OwnedGame rows after _sync_catalog with a collection_owned_map.     *)
(***************************************************************************)
LinkedIds(store, u) == {gid \in DOMAIN store.games : store.owned[u][gid] > 0}

(* the Collection of u exists and is linked to exactly the stored ids of   *)
(* the set the last call gave for u                                        *)
LinksMatchTarget(u) ==
    /\ u \in db.collections
    /\ LinkedIds(db, u) = last.collection_owned_map[u] \cap StoredIds

(* C23 as stated: after a completed _sync_catalog with a                   *)
(* collection_owned_map, every username of the map has a Collection linked *)
(* to exactly the stored ids of its id set.                                *)
C23_LinksMatchForEveryUsername ==
    (IsSyncCatalog /\ ~last.raised) =>
        \A u \in DOMAIN last.collection_owned_map : LinksMatchTarget(u)

(* C23: after a completed _sync_catalog with a collection_owned_map, every *)
(* non-empty username of the map has a Collection linked to exactly the    *)
(* stored ids of its id set; an empty username is skipped and gets no      *)
(* Collection.                                                             *)
C23_LinksMatchForNamedUsers ==
    (IsSyncCatalog /\ ~last.raised) =>
        /\ \A u \in (DOMAIN last.collection_owned_map) \ {""} : LinksMatchTarget(u)
        /\ "" \notin db.collections

(* a call that created a missing link of a user and deleted a link of that *)
(* user to an id outside the set                                           *)
C23_Witness ==
    /\ last.op = "_sync_catalog" /\ ~last.raised
    /\ \E u \in (DOMAIN last.collection_owned_map) \ {""} :
        /\ LinkedIds(last.pre, u) \ last.collection_owned_map[u] # {}
        /\ last.collection_owned_map[u] \ LinkedIds(last.pre, u) # {}
        /\ LinkedIds(db, u) = last.collection_owned_map[u]

(***************************************************************************)
(* The updated timestamp under a repeated _sync_catalog.                   *)
(***************************************************************************)
(* the row of a game apart from its updated timestamp *)
WithoutUpdatedAt(game) == [game EXCEPT !.updated_at = 0]

(* C24: after _sync_catalog is run again with the inputs of the call       *)
(* before it, an item whose stored data the second call left as it was     *)
(* has the updated timestamp it had before the second call.                *)
C24_RepeatKeepsUpdatedAt ==
    (last.op = "_sync_catalog again" /\ ~last.raised) =>
        \A gid \in StoredIds \cap DOMAIN last.pre.games :
            WithoutUpdatedAt(db.games[gid]) = WithoutUpdatedAt(last.pre.games[gid])
                => db.games[gid].updated_at = last.pre.games[gid].updated_at

(***************************************************************************)
(* The request layer under every request of the client.                    *)
(***************************************************************************)
(* a step in which a request of the running call is answered *)
Hears(status) ==
    /\ run.call # "none" /\ run.pc = "request"
    /\ run'.parity # run.parity
    /\ run'.answer.status = status

(* C25: in the ranks download, the collection fetch and the detail fetch   *)
(* alike, the first transport-level error of a call is followed by a       *)
(* backoff sleep and a new request, not by the error leaving the call, and *)
(* a 429 with a numeric Retry-After is followed by a sleep of that length. *)
C25_EveryRequestUsesRequestLayer ==
    [][/\ (Hears("timeout") /\ run.retries = 0) =>
            /\ run'.pc = "request"
            /\ run'.slept # None
       /\ (Hears("429") /\ ParseRetryAfter(run'.answer.retry_after) # None) =>
            run'.slept = ParseRetryAfter(run'.answer.retry_after)]_vars

(***************************************************************************)
(* GetSpec: one call of _get (bgg_client.py 48-106), as the ranks download *)
(* makes it (max_retries 5, 403 fatal) or as the detail fetch makes it     *)
(* (max_retries 8), against a remote service that answers each request as  *)
(* it likes.  Beside the locals of _get the frame counts the requests sent *)
(* and the 429 answers heard in the call, each up to the point where it    *)
(* passes every limit of the code, and whether every answer so far was a   *)
(* transport-level error.                                                  *)
(***************************************************************************)
SentCap == DetailMaxRetries + 2
RateLimitedCap == Max(2 * DetailMaxRetries, MinRateRetries) + 1

GetIdle ==
    [ pc |-> "idle", call |-> "none", target |-> 0, max_retries |-> 0,
      fatal_statuses |-> {}, retries |-> 0, rate_limit_retries |-> 0,
      answer |-> [status |-> "", retry_after |-> ""], slept |-> None,
      outcome |-> "", parity |-> 0, error |-> "",
      sent |-> 0, rate_limited |-> 0, only_transport |-> TRUE ]

GetInit ==
    /\ db = EmptyStore
    /\ clock = 0
    /\ last = NoCall
    /\ jobs = <<>>
    /\ run = GetIdle
    /\ requests = 0

(* lines 114 and 343: the two ways the client calls _get *)
CallGet ==
    /\ run.pc = "idle"
    /\ \/ run' = [EnterGet(run, DefaultMaxRetries, {"403"}) EXCEPT !.call = "_get"]
       \/ run' = [EnterGet(run, DetailMaxRetries, {}) EXCEPT !.call = "_get"]
    /\ UNCHANGED <<db, clock, last, jobs, requests>>

(* one pass of the loop, lines 59-106 *)
GetRequest ==
    /\ run.pc = "request" /\ run.call = "_get"
    /\ \E answer \in Answers :
        LET got == _get(run, answer)
        IN  run' = [ got EXCEPT
                       !.pc = IF got.outcome = "retry" THEN "request" ELSE got.outcome,
                       !.sent = Min(@ + 1, SentCap),
                       !.rate_limited =
                           IF answer.status = "429" THEN Min(@ + 1, RateLimitedCap) ELSE @,
                       !.only_transport = @ /\ answer.status = "timeout" ]
    /\ UNCHANGED <<db, clock, last, jobs, requests>>

GetNext ==
    \/ CallGet
    \/ GetRequest

GetSpec == GetInit /\ [][GetNext]_vars

(***************************************************************************)
(* Properties of one _get call.                                            *)
(***************************************************************************)
InGet == run.call = "_get"
MaxRateRetries == Max(2 * run.max_retries, MinRateRetries)

(* C26: within one _get call the number of 429 answers heard, whatever     *)
(* other answers come between them, never exceeds max(2*max_retries, 6).   *)
C26_TotalRateLimitCeiling ==
    InGet => run.rate_limited <= MaxRateRetries

(***************************************************************************)
(* The budgets of rate-limit and queue signals.                            *)
(***************************************************************************)
(* the retries a call has left for transient errors: 50 in the loop of     *)
(* fetch_owned_collection, max_retries in _get                             *)
ErrorRetriesLeft(frame) ==
    IF frame.call = "fetch_owned_collection"
    THEN Max(0, PollMaxRetries - frame.retries)
    ELSE Max(0, frame.max_retries - frame.retries)

(* a step in which the call hears a rate-limit or queue signal and goes on *)
HearsSignal ==
    /\ \/ UsesGet /\ Hears("429")
       \/ InCall("fetch_owned_collection") /\ Hears("queued")
       \/ InDetails /\ Hears("queued")
    /\ run'.pc = "request"

(* C27: a 429 in _get, a 202 in fetch_owned_collection and a 'still        *)
(* processing' answer in the detail stream leave the call at least as many *)
(* transient-error retries as it had before the signal.                    *)
C27_SignalsKeepErrorBudget ==
    [][HearsSignal => ErrorRetriesLeft(run') >= ErrorRetriesLeft(run)]_vars

(***************************************************************************)
(* Transport-level errors in _get.                                         *)
(***************************************************************************)
(* a step in which the request of _get fails at transport level *)
GetHearsTimeout ==
    /\ InGet /\ run.pc = "request"
    /\ run'.parity # run.parity
    /\ run'.answer.status = "timeout"

(* the k-th failure is retried after min(backoff^k, 120) while k is at     *)
(* most max_retries, and re-raised after that                              *)
TransportErrorStep ==
    GetHearsTimeout =>
        LET k == run.retries + 1
        IN  IF k <= run.max_retries
            THEN /\ run'.pc = "request"
                 /\ run'.retries = k
                 /\ run'.slept = Some(Min(Pow(BackoffBase, k), BackoffCap))
            ELSE /\ run'.pc = "raised"
                 /\ run'.error = "RequestException"

(* a call all of whose requests so far failed at transport level has sent  *)
(* at most max_retries + 1 requests, and exactly that many when it raised  *)
OnlyTransportErrors ==
    (InGet /\ run.only_transport) =>
        /\ run.sent <= run.max_retries + 1
        /\ run.pc = "raised" <=> run.sent = run.max_retries + 1
        /\ run.pc = "raised" => run.error = "RequestException"

(* C28: in _get the k-th transport-level error is retried after a wait of  *)
(* min(backoff^k, 120) for k up to max_retries, the (max_retries+1)-th is  *)
(* re-raised, and a call whose every request fails at transport level      *)
(* sends exactly max_retries + 1 requests and ends with that error.        *)
C28_TransportRetriesBounded ==
    [][TransportErrorStep /\ OnlyTransportErrors']_vars

(* a call with the default max_retries whose six requests all failed at    *)
(* transport level has raised                                              *)
C28_Witness ==
    /\ InGet /\ run.pc = "raised" /\ run.only_transport
    /\ run.max_retries = DefaultMaxRetries
    /\ run.sent = DefaultMaxRetries + 1
    /\ run.error = "RequestException"

(***************************************************************************)
(* The attempt cap of a queued detail chunk.                               *)
(***************************************************************************)
QueueError == "BGG is still preparing game details after multiple attempts"

(* C29: the 12th 'still processing' answer in a row for a chunk makes      *)
(* _iter_details_batches raise, every earlier one is followed by another   *)
(* request, no wait exceeds 60, and a chunk that succeeds leaves the       *)
(* attempt counter at zero for the next chunk.                             *)
C29_QueueAttemptsCapped ==
    [][/\ DetailsHears("queued") =>
            LET attempt == run.queue_retries + 1
            IN  /\ run'.queue_wait # None
                /\ run'.queue_wait[1] <= QueueWaitCap
                /\ run'.queue_retries = attempt
                /\ IF attempt >= QueueRetryCap
                   THEN run'.pc = "raised" /\ run'.error = QueueError
                   ELSE run'.pc = "request"
       /\ DetailsHears("200") => run'.queue_retries = 0
       /\ (InDetails /\ run'.target # run.target) =>
            run.queue_retries = 0 /\ run'.queue_retries = 0
       /\ InDetails' => run'.queue_retries <= QueueRetryCap]_vars

(* the second chunk was answered 'still processing' twelve times in a row, *)
(* after the first chunk had been yielded                                  *)
C29_Witness ==
    /\ InDetails /\ run.pc = "raised"
    /\ run.target = 2 /\ run.yielded = 1
    /\ run.queue_retries = QueueRetryCap
    /\ run.queue_wait = Some(QueueWaitCap)
    /\ run.error = QueueError

(***************************************************************************)
(* A 202 answer without items in the detail stream.                        *)
(***************************************************************************)
(* C30: a detail answer with status 202 and no items, with or without      *)
(* message text, is followed by another request for the same chunk (or by  *)
(* the error of the attempt cap) and is never yielded as a batch.          *)
C30_EmptyAcceptedIsNeverYielded ==
    [][\A status \in Accepted :
          DetailsHears(status) =>
              /\ run'.pc \in {"request", "raised"}
              /\ run'.target = run.target
              /\ run'.yielded = run.yielded]_vars

(***************************************************************************)
(* BatchSpec: one call of stream_details_batches with an id list and a     *)
(* batch size; the remote answers each bulk request with the items, with   *)
(* 'still processing', or not at all.                                      *)
(***************************************************************************)
BatchLists ==
    {ids \in UNION {[1..len -> 1..MaxRows] : len \in 0..MaxRows} :
        \A i \in 1..Len(ids) : \A j \in 1..Len(ids) : ids[i] = ids[j] => i = j}

GivenBatchSizes == {-1, 0, 1, 2, 20}

BatchAnswers == {"200", "queued", "raised"}

(* bgg_client.py 340: ids[idx: idx + current_batch] *)
Chunk(ids, idx, current_batch) ==
    SubSeq(ids, idx + 1, Min(idx + current_batch, Len(ids)))

BatchIdle ==
    [ pc |-> "idle", ids |-> <<>>, given |-> 0, batch_size |-> 0, idx |-> 0,
      current_batch |-> 0, queue_retries |-> 0, chunk |-> <<>>,
      chunks |-> <<>>, sent |-> 0, only_ok |-> TRUE ]

BatchInit ==
    /\ db = EmptyStore
    /\ clock = 0
    /\ last = NoCall
    /\ jobs = <<>>
    /\ requests = 0
    /\ run = BatchIdle

(* lines 333-338 *)
CallStreamDetails ==
    /\ run.pc = "idle"
    /\ \E ids \in BatchLists, batch_size \in GivenBatchSizes :
          LET max_ids == batch_size
              size == Max(1, Min(batch_size, max_ids))
          IN  run' = [ BatchIdle EXCEPT !.pc = "loop", !.ids = ids,
                                        !.given = batch_size,
                                        !.batch_size = size,
                                        !.current_batch = size ]
    /\ UNCHANGED <<db, clock, last, jobs, requests>>

(* lines 339-343 and 357-491: the loop test, one bulk request for the next *)
(* chunk and what the answer leads to; line 489 sets current_batch to      *)
(* min(batch_size, max_ids), where max_ids is the batch size as given; the *)
(* call is followed for at most MaxRows + 1 chunks                         *)
BatchRequest ==
    /\ run.pc = "loop"
    /\ Len(run.chunks) <= MaxRows
    /\ IF run.idx < Len(run.ids)
       THEN \E answer \in BatchAnswers :
              LET chunk == Chunk(run.ids, run.idx, run.current_batch)
                  asked == [run EXCEPT !.chunk = chunk,
                                       !.sent = Min(@ + 1, MaxRows + 1),
                                       !.only_ok = @ /\ answer = "200"]
              IN  run' = CASE answer = "raised" -> [asked EXCEPT !.pc = "raised"]
                           [] answer = "queued" ->
                                IF asked.queue_retries + 1 >= QueueRetryCap
                                THEN [asked EXCEPT !.pc = "raised",
                                                   !.queue_retries = @ + 1]
                                ELSE [asked EXCEPT !.queue_retries = @ + 1]
                           [] OTHER ->
                                [asked EXCEPT !.pc = "yielded",
                                              !.queue_retries = 0,
                                              !.idx = @ + Len(chunk),
                                              !.current_batch =
                                                  Min(run.batch_size, run.given),
                                              !.chunks = Append(@, chunk)]
       ELSE run' = [run EXCEPT !.pc = "returned"]
    /\ UNCHANGED <<db, clock, last, jobs, requests>>

(* the consumer asks for the next chunk *)
BatchResume ==
    /\ run.pc = "yielded"
    /\ run' = [run EXCEPT !.pc = "loop"]
    /\ UNCHANGED <<db, clock, last, jobs, requests>>

BatchNext ==
    \/ CallStreamDetails
    \/ BatchRequest
    \/ BatchResume

BatchSpec == BatchInit /\ [][BatchNext]_vars

RECURSIVE Flatten(_)
Flatten(chunks) ==
    IF chunks = <<>> THEN <<>> ELSE Head(chunks) \o Flatten(Tail(chunks))

CeilDiv(a, b) == (a + b - 1) \div b

FixedSize == IF run.given < 1 THEN 1 ELSE run.given

(* C31: the chunks yielded so far are non-empty, of the fixed size (only   *)
(* a chunk that ends the list may be shorter), and laid end to end they    *)
(* are the first idx ids of the list, so no id is skipped or repeated;     *)
(* when the call returns they are the whole list, and when every request   *)
(* was answered with the items there were ceil(len(ids)/size) requests and *)
(* as many chunks.                                                         *)
C31_ChunksPartitionTheIds ==
    run.pc \in {"loop", "yielded", "raised", "returned"} =>
        /\ \A k \in 1..Len(run.chunks) :
              /\ Len(run.chunks[k]) >= 1
              /\ Len(run.chunks[k]) <= FixedSize
              /\ Len(run.chunks[k]) < FixedSize =>
                    /\ k = Len(run.chunks)
                    /\ run.idx = Len(run.ids)
        /\ run.idx <= Len(run.ids)
        /\ Flatten(run.chunks) = SubSeq(run.ids, 1, run.idx)
        /\ run.pc = "returned" =>
              /\ Flatten(run.chunks) = run.ids
              /\ Len(run.chunks) = CeilDiv(Len(run.ids), FixedSize)
              /\ run.only_ok => run.sent = CeilDiv(Len(run.ids), FixedSize)

(* three ids in batches of two: a full chunk, then the shorter last one *)
C31_Witness ==
    /\ run.pc = "returned" /\ run.only_ok
    /\ Len(run.ids) = 3 /\ run.given = 2
    /\ Len(run.chunks) = 2
    /\ Len(run.chunks[1]) = 2 /\ Len(run.chunks[2]) = 1

(***************************************************************************)
(* The detail stream of run_refresh is consumed chunk by chunk.            *)
(***************************************************************************)
InDetailsPhase == run.kind = "refresh" /\ run.pc \in {"stream", "apply"}

ChunkAt(from, to) == {run.all_ids[i] : i \in (from + 1)..to}

(* C32: in the details phase of run_refresh a request for a chunk is sent  *)
(* only when every chunk requested before has been applied; the chunk a    *)
(* request brings is the next slice of all_ids; the loop body applies      *)
(* exactly that chunk with _sync_refresh_chunk, once, before the stream is *)
(* resumed; and the phase ends only when every id has been applied.        *)
C32_ChunksAppliedInRequestOrder ==
    [][InDetailsPhase =>
         /\ requests' # requests =>
               /\ run.pc = "stream"
               /\ run.applied = run.pos
         /\ run'.pos # run.pos =>
               /\ run.pc = "stream" /\ run'.pc = "apply"
               /\ run'.pos > run.pos
               /\ run'.chunk_ids = ChunkAt(run.pos, run'.pos)
               /\ run'.applied = run.applied
         /\ (run.pc = "apply" /\ run'.pc # "except") =>
               /\ run.applied < run.pos
               /\ run.chunk_ids = ChunkAt(run.applied, run.pos)
               /\ run'.applied = run.pos
               /\ run'.pc = "stream"
               /\ requests' = requests
               /\ db' = _sync_refresh_chunk(db, run.chunk_ids, run.combined,
                            DetailsMap(run.D, run.v), PollsMap(run.D, run.v),
                            _build_owners_lookup(run.collections_map),
                            NormalizedUsernames(DOMAIN run.collections_map),
                            clock')
         /\ run.pc = "stream" => db' = db
         /\ run'.pc = "prune" => run.applied = Len(run.all_ids)]_vars

(* two chunks of one id each have been requested and applied *)
C32_Witness ==
    /\ run.kind = "refresh" /\ run.pc = "stream"
    /\ run.batch_size = 1
    /\ Len(run.all_ids) = 2
    /\ run.pos = 2 /\ run.applied = 2
    /\ requests >= 2

(***************************************************************************)
(* ConcSpec: two jobs started by start_background (tasks.py 746-756) run   *)
(* on two threads against the one store.  Each thread runs run_fetch_top_n *)
(* or run_fetch_collection; the statements _sync_catalog sends to the      *)
(* store are the steps, and the steps of the two threads interleave.  In   *)
(* this specification `run` maps a thread to its frame and `jobs` maps it  *)
(* to its FetchJob row.                                                    *)
(***************************************************************************)
Threads == {1, 2}

ConcIdSets == {{1}, Ids}

IntegrityError == "IntegrityError"

ConcIdle ==
    [ pc |-> "idle", kind |-> "none", K |-> {}, username |-> "", v |-> "v1",
      now |-> 0, existing_games |-> <<>>, game_objs |-> <<>>,
      existing_owned |-> {}, owners_by_game_actual |-> <<>>, exc |-> "" ]

ConcInit ==
    /\ db = EmptyStore
    /\ clock = 0
    /\ last = NoCall
    /\ requests = 0
    /\ jobs = [t \in Threads |-> NewJob("none", 0, None)]
    /\ run = [t \in Threads |-> ConcIdle]

ThreadUser(t) == IF t = 1 THEN "alice" ELSE "bob"
ThreadVersion(t) == IF t = 1 THEN "v1" ELSE "v2"

(* the arguments run_fetch_top_n (line 691) and run_fetch_collection       *)
(* (lines 731-732) pass to _sync_catalog                                   *)
ConcGamesMap(frame) ==
    IF frame.kind = "top_n" THEN RankedMap(frame.K, frame.v)
    ELSE OwnedMap(frame.K, frame.v)
ConcCollections(frame) ==
    IF frame.kind = "collection" THEN [u \in {frame.username} |-> frame.K]
    ELSE <<>>
ConcPruneFlag(frame) == frame.kind = "top_n"

(* the Game object _sync_catalog builds for gid at lines 139-183, from the *)
(* row it read at line 136 when there was one                              *)
ConcGameObject(frame, gid) ==
    CatalogRow([EmptyStore EXCEPT !.games = frame.existing_games], gid,
               ConcGamesMap(frame)[gid], DetailsMap(frame.K, frame.v)[gid],
               OwnersInput(ConcCollections(frame), gid), frame.now)

(* bulk_update of lines 187-202: the nine named columns of a stored row *)
WriteCatalogColumns(row, game) ==
    [ row EXCEPT !.title = game.title, !.type = game.type, !.year = game.year,
                 !.avg_rating = game.avg_rating, !.num_voters = game.num_voters,
                 !.weight = game.weight, !.weight_votes = game.weight_votes,
                 !.bgg_rank = game.bgg_rank, !.updated_at = game.updated_at ]

ConcRaise(t, message) ==
    run' = [run EXCEPT ![t] = [@ EXCEPT !.pc = "except", !.exc = message]]

ConcGoto(t, pc) == run' = [run EXCEPT ![t] = [@ EXCEPT !.pc = pc]]

(* views.py 21-28 and tasks.py 661-688, 708-728: the job row is created,   *)
(* the runner marks it running and fetches its ids from the remote         *)
ConcStart(t) ==
    /\ run[t].pc = "idle"
    /\ \E kind \in {"top_n", "collection"}, K \in ConcIdSets :
          /\ run' = [run EXCEPT ![t] =
                        [ConcIdle EXCEPT !.pc = "prune", !.kind = kind, !.K = K,
                                         !.username = ThreadUser(t),
                                         !.v = ThreadVersion(t),
                                         !.now = clock + 1]]
          /\ jobs' = [jobs EXCEPT ![t] =
                        [NewJob(kind, Cardinality(K), None) EXCEPT
                            !.status = "running", !.total = Cardinality(K),
                            !.progress = Cardinality(K)]]
    /\ clock' = clock + 1
    /\ UNCHANGED <<db, last, requests>>

(* lines 129-134 *)
ConcPrune(t) ==
    /\ run[t].pc = "prune"
    /\ db' = IF ConcPruneFlag(run[t]) THEN DeleteGamesOutside(db, run[t].K) ELSE db
    /\ ConcGoto(t, "read")
    /\ UNCHANGED <<clock, last, jobs, requests>>

(* line 136 *)
ConcReadExisting(t) ==
    /\ run[t].pc = "read"
    /\ run' = [run EXCEPT ![t] =
                 [@ EXCEPT !.pc = "create",
                           !.existing_games = Restrict(db.games, run[t].K)]]
    /\ UNCHANGED <<db, clock, last, jobs, requests>>

(* lines 185-186: bgg_id is unique (models.py 5), so the insert of an id   *)
(* that is stored by now fails as a whole                                  *)
ConcBulkCreate(t) ==
    /\ run[t].pc = "create"
    /\ LET games_to_create == run[t].K \ DOMAIN run[t].existing_games
       IN  IF games_to_create \cap DOMAIN db.games # {}
           THEN ConcRaise(t, IntegrityError) /\ UNCHANGED db
           ELSE /\ db' = [db EXCEPT !.games =
                            [gid \in (DOMAIN db.games) \cup games_to_create |->
                                IF gid \in games_to_create
                                THEN ConcGameObject(run[t], gid)
                                ELSE db.games[gid]]]
                /\ ConcGoto(t, "update")
    /\ UNCHANGED <<clock, last, jobs, requests>>

(* lines 187-202: rows deleted since line 136 are not written *)
ConcBulkUpdate(t) ==
    /\ run[t].pc = "update"
    /\ db' = [db EXCEPT !.games =
                [gid \in DOMAIN db.games |->
                    IF gid \in DOMAIN run[t].existing_games
                    THEN WriteCatalogColumns(db.games[gid], ConcGameObject(run[t], gid))
                    ELSE db.games[gid]]]
    /\ ConcGoto(t, "reread")
    /\ UNCHANGED <<clock, last, jobs, requests>>

(* line 203 *)
ConcReread(t) ==
    /\ run[t].pc = "reread"
    /\ run' = [run EXCEPT ![t] =
                 [@ EXCEPT !.pc = "relations",
                           !.game_objs = Restrict(db.games, run[t].K)]]
    /\ UNCHANGED <<db, clock, last, jobs, requests>>

(* lines 205-308: categories, families and recommendation rows of the      *)
(* games read at line 203; a row written for a game that has been deleted  *)
(* since refers to no game, which the store rejects or not as it is        *)
(* configured                                                              *)
ConcRelationsAndRecs(t) ==
    /\ run[t].pc = "relations"
    /\ LET ids == DOMAIN run[t].game_objs
           stored == ids \cap DOMAIN db.games
           next_pc == IF run[t].kind = "collection" THEN "links_read" ELSE "owners_read"
       IN  \/ /\ db' = CatalogRecs(SetRelations(db, stored, DetailsMap(stored, run[t].v)),
                                   Restrict(ConcGamesMap(run[t]), stored),
                                   PollsMap(stored, run[t].v))
              /\ ConcGoto(t, next_pc)
           \/ /\ stored # ids
              /\ ConcRaise(t, IntegrityError)
              /\ UNCHANGED db
    /\ UNCHANGED <<clock, last, jobs, requests>>

(* lines 311-317: get_or_create of the collection, the games missing from *)
(* game_objs and the links the collection has                              *)
ConcLinksRead(t) ==
    /\ run[t].pc = "links_read"
    /\ db' = [db EXCEPT !.collections = @ \cup {run[t].username}]
    /\ run' = [run EXCEPT ![t] =
                 [@ EXCEPT !.pc = "links_write",
                           !.game_objs =
                               [gid \in (DOMAIN @) \cup (run[t].K \cap DOMAIN db.games) |->
                                   IF gid \in DOMAIN @ THEN @[gid] ELSE db.games[gid]],
                           !.existing_owned =
                               {gid \in Ids : db.owned[run[t].username][gid] > 0}]]
    /\ UNCHANGED <<clock, last, jobs, requests>>

(* lines 318-329: links are created for the target ids without one whose   *)
(* game is in game_objs, and removed for ids outside the target            *)
ConcLinksWrite(t) ==
    /\ run[t].pc = "links_write"
    /\ LET u == run[t].username
           owned_to_create == (run[t].K \ run[t].existing_owned) \cap DOMAIN run[t].game_objs
           to_remove == run[t].existing_owned \ run[t].K
           written ==
               [db EXCEPT !.owned[u] =
                   [gid \in Ids |->
                       IF gid \in owned_to_create \cap DOMAIN db.games THEN @[gid] + 1
                       ELSE IF gid \in to_remove /\ @[gid] > 0 THEN @[gid] - 1
                       ELSE @[gid]]]
       IN  \/ /\ db' = written
              /\ ConcGoto(t, "owners_read")
           \/ /\ ~(owned_to_create \subseteq DOMAIN db.games)
              /\ ConcRaise(t, IntegrityError)
              /\ UNCHANGED db
    /\ UNCHANGED <<clock, last, jobs, requests>>

(* lines 332-343: the relevant games missing from game_objs and the owners *)
(* the links give each relevant game                                       *)
ConcOwnersRead(t) ==
    /\ run[t].pc = "owners_read"
    /\ run' = [run EXCEPT ![t] =
                 [@ EXCEPT !.pc = "owners_write",
                           !.game_objs =
                               [gid \in (DOMAIN @) \cup (run[t].K \cap DOMAIN db.games) |->
                                   IF gid \in DOMAIN @ THEN @[gid] ELSE db.games[gid]],
                           !.owners_by_game_actual =
                               [gid \in run[t].K |->
                                   IF gid \in DOMAIN db.games
                                   THEN LinkOwners(db, gid) ELSE {}]]]
    /\ UNCHANGED <<db, clock, last, jobs, requests>>

(* lines 344-357: the games whose owned or owned_by, as this thread read   *)
(* them, differ from the owners are written                                *)
ConcOwnersWrite(t) ==
    /\ run[t].pc = "owners_write"
    /\ LET games_to_owner_update ==
               {gid \in run[t].K \cap DOMAIN run[t].game_objs :
                   LET game == run[t].game_objs[gid]
                       owners == run[t].owners_by_game_actual[gid]
                   IN  game.owned # (owners # {}) \/ game.owned_by # owners}
       IN  db' = [db EXCEPT !.games =
                    [gid \in DOMAIN db.games |->
                        IF gid \in games_to_owner_update
                        THEN [db.games[gid] EXCEPT
                                !.owned = (run[t].owners_by_game_actual[gid] # {}),
                                !.owned_by = run[t].owners_by_game_actual[gid],
                                !.updated_at = run[t].now]
                        ELSE db.games[gid]]]
    /\ ConcGoto(t, "finish")
    /\ UNCHANGED <<clock, last, jobs, requests>>

(* lines 694-697 and 735-737 *)
ConcFinish(t) ==
    /\ run[t].pc = "finish"
    /\ jobs' = [jobs EXCEPT ![t] = [@ EXCEPT !.status = "done",
                                             !.finished_at = Some(clock + 1),
                                             !.progress =
                                                 IF run[t].kind = "top_n"
                                                 THEN jobs[t].total ELSE @]]
    /\ ConcGoto(t, "returned")
    /\ clock' = clock + 1
    /\ UNCHANGED <<db, last, requests>>

(* lines 699-704 and 739-744 *)
ConcExcept(t) ==
    /\ run[t].pc = "except"
    /\ jobs' = [jobs EXCEPT ![t] = [@ EXCEPT !.status = "error",
                                             !.error = run[t].exc,
                                             !.finished_at = Some(clock + 1)]]
    /\ ConcGoto(t, "returned")
    /\ clock' = clock + 1
    /\ UNCHANGED <<db, last, requests>>

ConcNext ==
    \E t \in Threads :
        \/ ConcStart(t)
        \/ ConcPrune(t)
        \/ ConcReadExisting(t)
        \/ ConcBulkCreate(t)
        \/ ConcBulkUpdate(t)
        \/ ConcReread(t)
        \/ ConcRelationsAndRecs(t)
        \/ ConcLinksRead(t)
        \/ ConcLinksWrite(t)
        \/ ConcOwnersRead(t)
        \/ ConcOwnersWrite(t)
        \/ ConcFinish(t)
        \/ ConcExcept(t)

ConcSpec == ConcInit /\ [][ConcNext]_vars

(***************************************************************************)
(* Two jobs at once.                                                       *)
(***************************************************************************)
Other(t) == 3 - t

Steps(t) == run'[t] # run[t]

BothReturned == \A t \in Threads : run[t].pc = "returned"

(* C33: a step of one job leaves alone every stored game, with its         *)
(* recommendation rows and its links, whose id only the other job fetched, *)
(* and the other job's collection.                                         *)
C33_WritesScopedToFetchedIds ==
    [][\A t \in Threads :
          Steps(t) =>
              /\ \A gid \in (run[Other(t)].K \ run'[t].K) \cap DOMAIN db.games :
                    /\ gid \in DOMAIN db'.games
                    /\ db'.games[gid] = db.games[gid]
                    /\ db'.player_counts[gid] = db.player_counts[gid]
                    /\ \A u \in Users : db'.owned[u][gid] = db.owned[u][gid]
              /\ run[Other(t)].username \in db.collections =>
                    run[Other(t)].username \in db'.collections]_vars

SharedNewIds == run[1].K \cap run[2].K

ValuesOf(t, gid) ==
    [ title |-> StrOr(ConcGamesMap(run[t])[gid].Title, ""),
      avg_rating |-> _to_float(ConcGamesMap(run[t])[gid].AvgRating),
      year |-> DetailsMap(run[t].K, run[t].v)[gid].Year ]

HoldsValuesOf(t, gid) ==
    /\ db.games[gid].title = ValuesOf(t, gid).title
    /\ db.games[gid].avg_rating = ValuesOf(t, gid).avg_rating
    /\ db.games[gid].year = ValuesOf(t, gid).year

(* C34: when both jobs, neither of which prunes, have upserted an id that  *)
(* the store did not hold when they started, both have ended with status   *)
(* 'done' and the id's row holds the values of one of the two jobs.        *)
C34_OverlapIsLastWriterWins ==
    (BothReturned /\ \A t \in Threads : run[t].kind = "collection") =>
        \A gid \in SharedNewIds :
            /\ \A t \in Threads : jobs[t].status = "done"
            /\ gid \in DOMAIN db.games
            /\ \E t \in Threads : HoldsValuesOf(t, gid)

(* C40: when two run_fetch_collection jobs for different usernames have    *)
(* both ended with status 'done', every stored game both collections hold  *)
(* has both usernames in owned_by, and owned_by is the set of usernames of *)
(* the game's links.                                                       *)
C40_BothOwnersAfterBothJobs ==
    ( /\ BothReturned
      /\ \A t \in Threads : run[t].kind = "collection" /\ jobs[t].status = "done" ) =>
        \A gid \in SharedNewIds \cap DOMAIN db.games :
            /\ {run[t].username : t \in Threads} \subseteq db.games[gid].owned_by
            /\ db.games[gid].owned_by = LinkOwners(db, gid)

(***************************************************************************)
(* ProgressSpec: one call of _sync_catalog with a progress callback and a  *)
(* positive target; only the progress reports of the call are followed.    *)
(* calls is the sequence of values passed to the callback.                 *)
(***************************************************************************)
ProgressTargets == 1..(MaxRows + 1)
UnitCounts == 0..MaxId
PlayerUnitCounts == 0..(MaxId * MaxCount)

(* int(round(a / b)) for a >= 0 and b > 0: Python rounds a half to the     *)
(* even neighbour                                                          *)
RoundHalfEven(a, b) ==
    LET q == a \div b
        r == a % b
    IN  IF 2 * r < b THEN q
        ELSE IF 2 * r > b THEN q + 1
        ELSE IF q % 2 = 0 THEN q ELSE q + 1

ProgressStages == <<"prune", "games", "relations", "players", "owned", "final">>

ProgressInit ==
    /\ db = EmptyStore
    /\ clock = 0
    /\ last = NoCall
    /\ jobs = <<>>
    /\ requests = 0
    /\ \E target \in ProgressTargets, prune \in BOOLEAN, stored \in UnitCounts,
          ids \in UnitCounts, polled \in PlayerUnitCounts, linked \in UnitCounts :
          LET prune_units == IF prune THEN stored ELSE 0
              games_units == ids
              relations_units == ids
              player_units == IF polled = 0 /\ games_units # 0 THEN games_units
                              ELSE IF ids = 0 THEN 0 ELSE polled
              owned_units == linked
              total == prune_units + games_units + relations_units
                           + player_units + owned_units
          IN  run = [ pc |-> 1, progress_target |-> target, prune |-> prune,
                      units |-> <<prune_units, games_units, relations_units,
                                  player_units, owned_units>>,
                      total_units |-> IF total <= 0 THEN 1 ELSE total,
                      completed_units |-> 0, last_progress |-> -1,
                      calls |-> <<>>, raised |-> FALSE ]

(* a report that calls the callback whatever the last value was *)
ReportUnitsEveryTime(frame, add_units) ==
    IF add_units <= 0 THEN frame
    ELSE LET completed_units == frame.completed_units + add_units
             progress_value ==
                 Min(frame.progress_target,
                     Max(0, RoundHalfEven(frame.progress_target * completed_units,
                                          frame.total_units)))
         IN  [frame EXCEPT !.completed_units = completed_units,
                           !.calls = Append(@, progress_value),
                           !.last_progress = progress_value]

(* tasks.py 113-128 *)
report_units(frame, add_units) ==
    IF add_units <= 0 THEN frame
    ELSE LET completed_units == frame.completed_units + add_units
             progress_value ==
                 Min(frame.progress_target,
                     Max(0, RoundHalfEven(frame.progress_target * completed_units,
                                          frame.total_units)))
         IN  IF progress_value > frame.last_progress
             THEN [frame EXCEPT !.completed_units = completed_units,
                                !.calls = Append(@, progress_value),
                                !.last_progress = progress_value]
             ELSE [frame EXCEPT !.completed_units = completed_units]

(* lines 129-134, 204, 231, 308, 310-330: the stage is done and reports    *)
(* its units; the prune stage reports when prune is set, the others always *)
(* (the ownership stage has no units when it is skipped)                   *)
ProgressReport ==
    /\ run.pc \in 1..5
    /\ run' = [ (IF ProgressStages[run.pc] = "prune" /\ ~run.prune
                 THEN run ELSE report_units(run, run.units[run.pc]))
                EXCEPT !.pc = run.pc + 1 ]
    /\ UNCHANGED <<db, clock, last, jobs, requests>>

(* line 251: a poll key that is no number ends the call in the players     *)
(* stage                                                                   *)
ProgressRaise ==
    /\ run.pc = 4
    /\ run' = [run EXCEPT !.pc = 0, !.raised = TRUE]
    /\ UNCHANGED <<db, clock, last, jobs, requests>>

(* lines 359-360 *)
ProgressFinal ==
    /\ run.pc = 6
    /\ run' = [run EXCEPT !.pc = 7,
                          !.calls = IF run.last_progress < run.progress_target
                                    THEN Append(@, run.progress_target) ELSE @]
    /\ UNCHANGED <<db, clock, last, jobs, requests>>

ProgressNext ==
    \/ ProgressReport
    \/ ProgressRaise
    \/ ProgressFinal

ProgressSpec == ProgressInit /\ [][ProgressNext]_vars

(* C35: every value passed to the callback lies in 0..target, each value   *)
(* is greater than the one before it, and when the call has returned the   *)
(* last value is the target, which therefore was passed once.              *)
C35_ProgressReportsIncreaseToTarget ==
    /\ \A i \in 1..Len(run.calls) :
          /\ run.calls[i] \in 0..run.progress_target
          /\ i > 1 => run.calls[i] > run.calls[i - 1]
    /\ run.pc = 7 =>
          /\ Len(run.calls) >= 1
          /\ run.calls[Len(run.calls)] = run.progress_target
          /\ Cardinality({i \in 1..Len(run.calls) :
                             run.calls[i] = run.progress_target}) = 1

(* a returned call with ownership units that reported every unit, whose    *)
(* first report rounded to 0 and whose later reports went up to the target *)
C35_Witness ==
    /\ run.pc = 7
    /\ Len(run.calls) >= 2
    /\ run.completed_units = run.total_units
    /\ run.units[5] > 0
    /\ \E i \in 1..Len(run.calls) : run.calls[i] = 0

(***************************************************************************)
(* A refresh started from the home view.                                   *)
(***************************************************************************)
HomeRefreshPurges ==
    /\ run.kind = "refresh" /\ run.pc = "start" /\ run.username # ""
    /\ run'.pc = "save_running"

(* C36: the purge of a refresh that the home view started for a username   *)
(* runs with that username as the one tracked username, and leaves the     *)
(* username's Collection and its links as they were.                       *)
C36_HomeRefreshKeepsItsCollection ==
    [][HomeRefreshPurges =>
          /\ run'.normalized_usernames = {run.username}
          /\ run.username \in db.collections =>
                /\ run.username \in db'.collections
                /\ db'.owned[run.username] = db.owned[run.username]]_vars

(***************************************************************************)
(* The job row as the job-status read (views.py 46-56) shows it.           *)
(***************************************************************************)
SameJobStored == run.pc # "idle" /\ run.job_id \in DOMAIN jobs /\ run.job_id \in DOMAIN jobs'

(* C37: while a refresh job runs, the progress of its stored row never     *)
(* goes down from one stored state to the next.                            *)
C37_RefreshProgressNeverDecreases ==
    [][(run.kind = "refresh" /\ SameJobStored) =>
          jobs'[run.job_id].progress >= jobs[run.job_id].progress]_vars

(* C38: in every stored state of a job of any kind, the progress lies      *)
(* between 0 and the total.                                                *)
C38_ProgressWithinTotal ==
    \A i \in DOMAIN jobs : 0 <= jobs[i].progress /\ jobs[i].progress <= jobs[i].total

InProgress == {"running", "waiting"}

(* C39: a stored refresh job whose status is done or error has no phase    *)
(* whose stored status is running or waiting.                              *)
C39_TerminalJobHasNoRunningPhase ==
    \A i \in DOMAIN jobs :
        (jobs[i].kind = "refresh" /\ jobs[i].status \in {"done", "error"}) =>
            \A name \in DOMAIN jobs[i].params.phases :
                jobs[i].params.phases[name].status \notin InProgress

====
